---- MODULE Spec2Model ----
(***************************************************************************)
(* Verification model of the gibster synchronisation engine (backend/).    *)
(*                                                                         *)
(* Part 1 models the SyncJob life cycle: sync_bookings (StartSync), the    *)
(* executor sync_scrape_user_with_job_tracking, the stale sweep            *)
(* check_and_mark_stale_jobs, retention cleanup cleanup_old_sync_jobs, the *)
(* periodic sync_scrape_all_users and the background-task failure handler. *)
(* Part 2 models the reconciliation of scrape_user_bookings over a store   *)
(* of Booking rows, Part 3 the scroll loop of GibneyScraper.scrape_rentals *)
(* against a page that renders whatever rows it likes, and the loops that  *)
(* try an action over a list of candidate selectors.                       *)
(*                                                                         *)
(* Time is kept as ages: last_updated_at is the number of whole minutes    *)
(* since the heartbeat was written, started_at the number of whole days    *)
(* since the row was inserted.  Ages saturate one above the largest value  *)
(* any comparison in the code can distinguish, and the heartbeat age is    *)
(* tracked only while a row is running: no code compares it otherwise, and *)
(* every write that makes a row running stamps it anew.                    *)
(* last_seen is 0 on a row stamped since time last passed and 1 otherwise.  *)
(* ret, beat and rec are history variables: ret records what the last call *)
(* of StartSync, the sweep or the cleanup returned to its caller, beat how *)
(* long ago the executor of a job last made progress, rec the snapshot and *)
(* the counters of the last reconciliation.  Each specification records    *)
(* the ones its claims read and leaves the others alone.                   *)
(***************************************************************************)
EXTENDS Integers, Sequences, FiniteSets, TLC

\* ------------------------------------------------------------------ bounds
MaxJobs == 2             \* SyncJob rows ever inserted in one behaviour
MaxBookings == 1         \* largest len(updated_bookings) a scrape returns
TimeoutMinutes == 1      \* the timeout_minutes argument of the sweep
DaysToKeep == 1          \* the days_to_keep argument of the cleanup
MaxTime == 2             \* start times a harvested booking can carry: 1..MaxTime
MaxRows == 2             \* rows the page renders in one scroll pass
MaxLimit == 2            \* largest max_rentals a harvest is called with
MaxLogs == 2             \* SyncJobLog rows written for one job

\* ------------------------------------------------------- program constants
stale_check_interval == 1   \* _stale_check_interval = 60 seconds = 1 minute

Owners == {"u1", "u2"}
Users == <<"u1", "u2">>     \* the order in which sync_scrape_all_users visits
JobIds == 1..MaxJobs
NULL == "NULL"
Never == -1                 \* _last_stale_check_time = None

MaxHb == TimeoutMinutes + 1
MaxAge == DaysToKeep + 1

\* The row of an id that is not (or no longer) in sync_jobs.
NoJob == [status |-> "absent"]

\* SyncJob(...) as inserted: the column defaults of the model class.
SyncJob(user, st, prog, err, done) ==
    [user_id |-> user, status |-> st, progress |-> prog,
     bookings_synced |-> 0, error_message |-> err,
     started_at |-> 0, last_updated_at |-> 0, completed_at |-> done,
     triggered_manually |-> TRUE]

\* An execution of sync_scrape_user_with_job_tracking: where it stands, the
\* user it was started for, whether a job_id was passed to it (the hand-off of
\* sync_bookings), the len(updated_bookings) it holds and, once it has
\* returned, the "successful" entry of the dict it returned.
Task(at, user, given) ==
    [pc |-> at, user |-> user, job_id |-> given, found |-> 0, successful |-> NULL]
NoTask == Task("none", NULL, FALSE)

VARIABLES
    jobs,        \* sync_jobs table: job id -> row or NoJob
    nextId,      \* next fresh job id (uuid4 never repeats)
    task,        \* per job id: the execution handed off for it (pc, user, job_id, found)
    allAt,       \* sync_scrape_all_users: index in Users being scraped, 0 idle
    lastCheck,   \* minutes since _last_stale_check_time, Never when None
    ret,         \* what the last StartSync, sweep or cleanup call returned
    beat,        \* per job id: minutes since its executor last took a step
    bookings,    \* bookings table: booking id (the primary key) -> row or NoBooking
    rec,         \* what the last run of scrape_user_bookings did
    sess,        \* the database session of a reconciliation that logs: its position,
                 \* its uncommitted deletes and the log entries it has persisted
    hv,          \* a run of GibneyScraper.scrape_rentals: the locals of its scroll loop
    loc,         \* a loop over candidate selectors: the page, the position in the
                 \* list, the selectors attempted and those the action acted through
    logs,        \* per job id, the number of SyncJobLog rows whose sync_job_id it is
    exc,         \* an exception caught by the executor, and the error message chosen for it
    sw,          \* per process, its _last_stale_check_time and its sweep call under way
    tx,          \* the transactions of a reconciliation: the row writes queued, those in
                 \* the open transaction and those committed
    lg           \* the wait after the login form is submitted: the page, the position in
                 \* the error selectors and the messages collected

vars == <<jobs, nextId, task, allAt, lastCheck, ret, beat, bookings, rec, sess, hv, loc, logs, exc, sw, tx, lg>>

\* The state of the job life cycle, and the state beside it.
life == <<jobs, nextId, task, allAt, lastCheck, ret, beat>>
aux == <<sess, hv, loc, logs, exc, sw, tx, lg>>

Active == {"pending", "running"}
Terminal == {"completed", "failed"}

Exists(j) == jobs[j] # NoJob
ActiveJobs(o) == {j \in JobIds : Exists(j) /\ jobs[j].user_id = o /\ jobs[j].status \in Active}

NoReturn == [op |-> "none", job |-> 0, status |-> NULL, n |-> 0]

\* The row of an id that is not in bookings.
NoBooking == [user_id |-> NULL]
BookingIds == {"a27Pb1", "a27Pb2"}
NoSession == [at |-> "idle", user |-> NULL, rental_data |-> <<>>, pending |-> {},
              calls |-> 0, logs |-> 0, failed |-> FALSE, deleted |-> 0]
NoHarvest == [pc |-> "idle", max_rentals |-> 0, all_rentals |-> <<>>, processed_ids |-> {},
              scroll_count |-> 0, last_row_count |-> 0, no_new_content_count |-> 0,
              passes |-> 0, seen |-> <<>>, result |-> <<>>]
NoLocate == [pc |-> "idle", list |-> <<>>, dom |-> {}, next |-> 1,
             attempted |-> <<>>, took_effect |-> <<>>, found |-> FALSE, error_msg |-> <<>>]
NoLogs == [j \in JobIds |-> 0]
NoException == [name |-> <<>>, text |-> <<>>, user_friendly_error |-> NULL]
NoLogin == [pc |-> "idle", job |-> 0, url |-> <<>>, dom |-> {}, next |-> 1,
            error_messages |-> 0]
\* The processes that import worker.py: the API server (main.py 989-992) and
\* the Celery worker (run_worker.py 54-64).  Each has its own module globals.
Processes == {"api", "worker"}
NoSweep == [stamp |-> [p \in Processes |-> Never], pc |-> [p \in Processes |-> "idle"]]
NoTransaction == [pc |-> "idle", to_delete |-> 0, to_insert |-> 0, to_update |-> 0,
                  i |-> 0, open |-> 0, committed |-> 0, largest |-> 0]
NoRun == [op |-> "none", user |-> NULL, rental_data |-> <<>>, created |-> 0,
          updated |-> 0, unchanged |-> 0, deleted |-> 0, returned |-> 0]

Init ==
    /\ jobs = [j \in JobIds |-> NoJob]
    /\ nextId = 1
    /\ task = [j \in JobIds |-> NoTask]
    /\ allAt = 0
    /\ lastCheck = Never
    /\ ret = NoReturn
    /\ beat = [j \in JobIds |-> 0]
    /\ bookings = [b \in BookingIds |-> NoBooking]
    /\ rec = NoRun
    /\ sess = NoSession
    /\ hv = NoHarvest
    /\ loc = NoLocate
    /\ logs = NoLogs
    /\ exc = NoException
    /\ sw = NoSweep
    /\ tx = NoTransaction
    /\ lg = NoLogin

\* ------------------------------------------------------------- stale sweep
\* The rows the sweep's query selects.
StaleJobs_AtCutoff(timeout) ==
    {j \in JobIds : Exists(j) /\ jobs[j].status = "running"
                              /\ jobs[j].last_updated_at >= timeout}
StaleJobs(timeout) ==
    {j \in JobIds : Exists(j) /\ jobs[j].status = "running"
                              /\ jobs[j].last_updated_at > timeout}

MarkStale(row, timeout) ==
    [row EXCEPT !.status = "failed",
                !.error_message = "Sync timed out after " \o ToString(timeout) \o " minutes",
                !.progress = "Sync failed due to timeout",
                !.completed_at = TRUE,
                !.last_updated_at = 0]

\* The rate limiter: TRUE when the call returns 0 without querying.
SweepSkipped_Forever == lastCheck # Never
SweepSkipped_Never == FALSE
SweepSkipped == lastCheck # Never /\ lastCheck < stale_check_interval

\* jobs after check_and_mark_stale_jobs(db, timeout) called in the current state.
SweptJobs(timeout) ==
    IF SweepSkipped THEN jobs
    ELSE [j \in JobIds |-> IF j \in StaleJobs(timeout)
                           THEN MarkStale(jobs[j], timeout) ELSE jobs[j]]

SweepCount(timeout) == IF SweepSkipped THEN 0 ELSE Cardinality(StaleJobs(timeout))

SweepStamp == IF SweepSkipped THEN lastCheck ELSE 0

check_and_mark_stale_jobs(timeout) ==
    /\ jobs' = SweptJobs(timeout)
    /\ lastCheck' = SweepStamp
    /\ UNCHANGED <<nextId, task, allAt>>

SweepReturn(timeout) ==
    [op |-> IF SweepSkipped THEN "sweep_skipped" ELSE "sweep",
     job |-> 0, status |-> NULL, n |-> SweepCount(timeout)]

\* ------------------------------------------------------- retention cleanup
OldJobs_AnyStatus(days) ==
    {j \in JobIds : Exists(j) /\ jobs[j].started_at > days}
OldJobs(days) ==
    {j \in JobIds : Exists(j) /\ jobs[j].status \in Terminal
                              /\ jobs[j].started_at > days}

\* models.py 105-109: SyncJob.logs has cascade "all, delete-orphan", so the
\* session deletes the log rows of every job it deletes, in the same commit.
LogsAfterDelete_Kept(deleted) == logs
LogsAfterDelete(deleted) == [j \in JobIds |-> IF j \in deleted THEN 0 ELSE logs[j]]

cleanup_old_sync_jobs(days) ==
    /\ jobs' = [j \in JobIds |-> IF j \in OldJobs(days) THEN NoJob ELSE jobs[j]]
    /\ logs' = LogsAfterDelete(OldJobs(days))
    /\ UNCHANGED <<nextId, task, allAt, lastCheck>>

CleanupReturn(days) ==
    [op |-> "cleanup", job |-> 0, status |-> NULL, n |-> Cardinality(OldJobs(days))]

\* -------------------------------------------------------------- StartSync
\* sync_bookings: sweep, duplicate check, insert, hand off.  The duplicate
\* check is a query with .first() and no ORDER BY: when several rows match,
\* the database may return any of them, so the row answered is the input e.
ExistingJobs_AnyStatus(o, swept) ==
    {j \in JobIds : swept[j] # NoJob /\ swept[j].user_id = o}
ExistingJobs(o, swept) ==
    {j \in JobIds : swept[j] # NoJob /\ swept[j].user_id = o
                                     /\ swept[j].status \in Active}

sync_bookings(o, e) ==
    LET swept == SweptJobs(TimeoutMinutes)
        existing == ExistingJobs(o, swept)
    IN  /\ lastCheck' = SweepStamp
        /\ IF existing # {}
           THEN /\ e \in existing
                /\ jobs' = swept
                /\ UNCHANGED <<nextId, task>>
           ELSE /\ e = nextId
                /\ nextId <= MaxJobs
                /\ jobs' = [swept EXCEPT ![nextId] =
                              SyncJob(o, "pending", "Initializing sync...", NULL, FALSE)]
                /\ task' = [task EXCEPT ![nextId] = Task("queued", o, TRUE)]
                /\ nextId' = nextId + 1
        /\ UNCHANGED allAt

\* The SyncStartResponse of that call.
StartReturn(o, e) ==
    LET swept == SweptJobs(TimeoutMinutes)
    IN  IF ExistingJobs(o, swept) # {}
        THEN [op |-> "already", job |-> e, status |-> swept[e].status, n |-> 0]
        ELSE [op |-> "started", job |-> e, status |-> "pending", n |-> 0]

\* --------------------------------------------------------------- executor
\* The exception texts scrape_user_bookings raises in this model.
ScrapeErrors == {"Failed to login: Login failed - invalid credentials"}
DbError == "database is locked"

InitError == "Failed to initialize sync job: " \o DbError

\* main.py 655-683: an exception inside the try of sync_bookings, raised by
\* the commit of the insert (committed = FALSE) or by the hand-off after it
\* (committed = TRUE).  The handler rolls back, inserts a job row as failed
\* "for visibility" (okRecord: that insert succeeds) and answers HTTP 500.
HandoffError == "Error 111 connecting to redis:6379. Connection refused."
StartFailedRow(o, text) ==
    SyncJob(o, "failed", "Failed to start sync", "Failed to start sync: " \o text, TRUE)

sync_bookings_raises(o, committed, okRecord) ==
    LET swept == SweptJobs(TimeoutMinutes)
        first == IF committed THEN nextId + 1 ELSE nextId
        last == IF okRecord THEN first + 1 ELSE first
    IN  /\ ExistingJobs(o, swept) = {}
        /\ last - 1 <= MaxJobs
        /\ lastCheck' = SweepStamp
        /\ jobs' = [j \in JobIds |->
                      IF committed /\ j = nextId
                      THEN SyncJob(o, "pending", "Initializing sync...", NULL, FALSE)
                      ELSE IF okRecord /\ j = first
                      THEN StartFailedRow(o, IF committed THEN HandoffError ELSE DbError)
                      ELSE swept[j]]
        /\ nextId' = last
        /\ UNCHANGED <<task, allAt>>

StartRaised == [op |-> "raised", job |-> 0, status |-> NULL, n |-> 0]

\* The user-facing message chosen for an exception text.
UserFriendlyError(text) ==
    CASE text = "Failed to login: Login failed - invalid credentials" ->
           "Invalid Gibney credentials. Please update your login information."
      [] text \in {DbError, InitError} -> "Database error. Please try again later."
      [] OTHER -> "Sync error: " \o text

\* A commit of changed attributes of the executor's job object: an UPDATE of
\* the row by id.  It fails when told to, and when the row is gone.
Written(j, ok, row) == IF ok /\ Exists(j) THEN row ELSE jobs[j]

\* The except branch: the failed write, retried once in a fresh transaction.
FailedRow_StillOpen(row, msg) ==
    [row EXCEPT !.status = "failed", !.error_message = msg,
                !.progress = "Sync failed", !.last_updated_at = 0]
FailedRow(row, msg) ==
    [row EXCEPT !.status = "failed", !.error_message = msg,
                !.progress = "Sync failed", !.completed_at = TRUE,
                !.last_updated_at = 0]
RetriedRow(row, msg) ==
    [row EXCEPT !.status = "failed", !.error_message = msg,
                !.completed_at = TRUE, !.last_updated_at = 0]

\* The executor's handling of exception text e for job j of table tbl and
\* executions tk; ok1 and ok2 say whether the write and its retry succeed, raises whether the
\* last rollback raises out of the executor.
HandleException(tbl, tk, j, e, ok1, ok2, raises) ==
    LET msg == UserFriendlyError(e)
        wrote1 == ok1 /\ tbl[j] # NoJob
        wrote2 == ~wrote1 /\ ok2 /\ tbl[j] # NoJob
    IN  /\ jobs' = [tbl EXCEPT ![j] = IF wrote1 THEN FailedRow(@, msg)
                                      ELSE IF wrote2 THEN RetriedRow(@, msg)
                                      ELSE @]
        /\ task' = [tk EXCEPT ![j].pc =
                      IF ~wrote1 /\ ~wrote2 /\ raises THEN "escaped" ELSE "done",
                                ![j].successful =
                      IF ~wrote1 /\ ~wrote2 /\ raises THEN NULL ELSE "False"]

\* Lines 157-182: mark the job running, report "Logging into Gibney...",
\* start scraping.  A failure of the first write is raised, one of the
\* second is swallowed.
RunningRow(row) ==
    [row EXCEPT !.status = "running", !.progress = "Connecting to Gibney...",
                !.last_updated_at = 0]
LoginRow(row) ==
    [row EXCEPT !.progress = "Logging into Gibney...", !.last_updated_at = 0]

BeginJob(tbl, tk, j, ok1, ok2) ==
    IF ok1
    THEN /\ jobs' = [tbl EXCEPT ![j] = IF ok2 THEN LoginRow(RunningRow(@))
                                       ELSE RunningRow(@)]
         /\ task' = [tk EXCEPT ![j].pc = "scraping"]
    ELSE \E r1, r2, rb \in BOOLEAN : HandleException(tbl, tk, j, DbError, r1, r2, rb)

\* The executor started for a job row that StartSync inserted.
sync_scrape_user_with_job_tracking(j) ==
    /\ task[j].pc = "queued"
    /\ Exists(j)
    /\ \E ok1, ok2 \in BOOLEAN : BeginJob(jobs, task, j, ok1, ok2)
    /\ UNCHANGED <<nextId, allAt, lastCheck, ret>>

\* The executor started with job_id = None (lines 115-152): it inserts its
\* own row as running; when that insert fails it inserts a row as failed and
\* raises into its own except branch.
sync_scrape_user_without_job(o, okInsert) ==
    /\ nextId <= MaxJobs
    /\ task[nextId].pc = "none"
    /\ nextId' = nextId + 1
    /\ LET tk == [task EXCEPT ![nextId] = Task("init", o, FALSE)]
       IN  IF okInsert
           THEN LET tbl == [jobs EXCEPT ![nextId] =
                              SyncJob(o, "running", "Starting sync...", NULL, FALSE)]
                IN  \E ok1, ok2 \in BOOLEAN : BeginJob(tbl, tk, nextId, ok1, ok2)
           ELSE LET tbl == [jobs EXCEPT ![nextId] =
                              SyncJob(o, "failed", "Failed to initialize sync",
                                      "Failed to create sync job. Please try again.", TRUE)]
                IN  \E r1, r2, rb \in BOOLEAN :
                       HandleException(tbl, tk, nextId, InitError, r1, r2, rb)
    /\ UNCHANGED <<allAt, lastCheck, ret>>

\* scrape_user_bookings returns n bookings.
ScrapeReturns(j, n) ==
    /\ task[j].pc = "scraping"
    /\ task' = [task EXCEPT ![j].pc = "scraped", ![j].found = n]
    /\ UNCHANGED <<jobs, nextId, allAt, lastCheck, ret>>

\* scrape_user_bookings raises e; the except branch records the failure.
ScrapeRaisesWith(j, e, ok1, ok2, rb) ==
    /\ task[j].pc = "scraping"
    /\ HandleException(jobs, task, j, e, ok1, ok2, rb)
    /\ UNCHANGED <<nextId, allAt, lastCheck, ret>>

ScrapeRaises(j, e) == \E ok1, ok2, rb \in BOOLEAN : ScrapeRaisesWith(j, e, ok1, ok2, rb)

\* Lines 196-205: the booking count and heartbeat after the scrape.
CountRow(row, n) ==
    [row EXCEPT !.progress = "Processing " \o ToString(n) \o " bookings...",
                !.bookings_synced = n, !.last_updated_at = 0]

ReportCount(j, ok) ==
    /\ task[j].pc = "scraped"
    /\ jobs' = [jobs EXCEPT ![j] = Written(j, ok, CountRow(@, task[j].found))]
    /\ task' = [task EXCEPT ![j].pc = "finishing"]
    /\ UNCHANGED <<nextId, allAt, lastCheck, ret>>

\* Lines 207-233: the user's last_sync_at, then the completion write.
CompletedRow(row, n) ==
    [row EXCEPT !.status = "completed",
                !.progress = "Successfully synced " \o ToString(n) \o " bookings",
                !.completed_at = TRUE, !.last_updated_at = 0]

CompleteJob(j, okUser, ok) ==
    /\ task[j].pc = "finishing"
    /\ IF okUser
       THEN /\ jobs' = [jobs EXCEPT ![j] = Written(j, ok, CompletedRow(@, task[j].found))]
            /\ task' = [task EXCEPT ![j].pc = "done", ![j].successful = "True"]
       ELSE \E r1, r2, rb \in BOOLEAN : HandleException(jobs, task, j, DbError, r1, r2, rb)
    /\ UNCHANGED <<nextId, allAt, lastCheck, ret>>

\* The same step, with what the database would answer to a write made right
\* after the failed completion write: lines 226-233 roll back and go on, so
\* the step does not depend on it.
CompleteJobWith(j, okUser, ok, okAgain) == CompleteJob(j, okUser, ok)

\* main.py 200-215: the executor raised out of the background task.
BackgroundFailedRow(row) ==
    [row EXCEPT !.status = "failed",
                !.error_message = "Background task error: " \o DbError,
                !.completed_at = TRUE, !.last_updated_at = 0]

run_sync_task_in_background(j, ok) ==
    /\ task[j].pc = "escaped"
    /\ task[j].job_id
    /\ jobs' = [jobs EXCEPT ![j] = Written(j, ok, BackgroundFailedRow(@))]
    /\ task' = [task EXCEPT ![j].pc = "done"]
    /\ UNCHANGED <<nextId, allAt, lastCheck, ret>>

\* The periodic scrape of all users, one scrape_user_bookings_sync after the
\* other in the order of Users, with no job row and no duplicate check.
sync_scrape_all_users ==
    /\ allAt' = IF allAt < Len(Users) THEN allAt + 1 ELSE 0
    /\ UNCHANGED <<jobs, nextId, task, lastCheck, ret>>

\* The executions of scrape_user_bookings for owner o that are under way.
Reconciling(o) ==
    {j \in JobIds : task[j].pc = "scraping" /\ task[j].user = o}
ReconcilingAll(o) == allAt > 0 /\ Users[allAt] = o

\* ------------------------------------------------------------------- time
Older(a, max) == IF a < max THEN a + 1 ELSE max

Aged(row) ==
    IF row.status = "running"
    THEN [row EXCEPT !.last_updated_at = Older(@, MaxHb)] ELSE row

TickMinute ==
    /\ jobs' = [j \in JobIds |-> IF Exists(j) THEN Aged(jobs[j]) ELSE NoJob]
    /\ lastCheck' = IF lastCheck = Never THEN Never
                    ELSE Older(lastCheck, stale_check_interval)
    /\ UNCHANGED <<nextId, task, allAt, ret>>

AgedDay(row) ==
    [row EXCEPT !.last_updated_at = IF row.status = "running" THEN MaxHb ELSE @,
                !.started_at = Older(@, MaxAge)]

TickDay ==
    /\ jobs' = [j \in JobIds |-> IF Exists(j) THEN AgedDay(jobs[j]) ELSE NoJob]
    /\ lastCheck' = IF lastCheck = Never THEN Never ELSE stale_check_interval
    /\ UNCHANGED <<nextId, task, allAt, ret>>

\* One harvest pass inside scrape_user_bookings: the page is read, rows are
\* parsed and log entries are appended; the job row is not written.
ScrapePass(j) ==
    /\ task[j].pc = "scraping"
    /\ UNCHANGED <<jobs, nextId, task, allAt, lastCheck, ret>>

\* ------------------------------------------------ the job life cycle
Next ==
    \/ \E o \in Owners, e \in JobIds : sync_bookings(o, e) /\ UNCHANGED <<ret, beat, bookings, rec, aux>>
    \/ \E j \in JobIds : sync_scrape_user_with_job_tracking(j) /\ UNCHANGED <<beat, bookings, rec, aux>>
    \/ \E o \in Owners, ok \in BOOLEAN :
          sync_scrape_user_without_job(o, ok) /\ UNCHANGED <<beat, bookings, rec, aux>>
    \/ \E j \in JobIds, n \in 0..MaxBookings : ScrapeReturns(j, n) /\ UNCHANGED <<beat, bookings, rec, aux>>
    \/ \E j \in JobIds, e \in ScrapeErrors : ScrapeRaises(j, e) /\ UNCHANGED <<beat, bookings, rec, aux>>
    \/ \E j \in JobIds, ok \in BOOLEAN : ReportCount(j, ok) /\ UNCHANGED <<beat, bookings, rec, aux>>
    \/ \E j \in JobIds, okUser, ok \in BOOLEAN :
          CompleteJob(j, okUser, ok) /\ UNCHANGED <<beat, bookings, rec, aux>>
    \/ \E j \in JobIds, ok \in BOOLEAN :
          run_sync_task_in_background(j, ok) /\ UNCHANGED <<beat, bookings, rec, aux>>
    \/ check_and_mark_stale_jobs(TimeoutMinutes) /\ UNCHANGED <<ret, beat, bookings, rec, aux>>
    \/ TickMinute /\ UNCHANGED <<beat, bookings, rec, aux>>

Spec == Init /\ [][Next]_vars

\* ------------------------------------- one job and its executor's heartbeat
\* The life cycle of the first job, with beat recorded: every step of the
\* executor, a harvest pass included, resets it and every minute ages it.
Progress(j) == beat' = [beat EXCEPT ![j] = 0] /\ UNCHANGED <<bookings, rec, aux>>

BeatSweep == check_and_mark_stale_jobs(TimeoutMinutes) /\ UNCHANGED <<ret, beat, bookings, rec, aux>>
BeatTick ==
    /\ TickMinute
    /\ beat' = [j \in JobIds |-> Older(beat[j], MaxHb)]
    /\ UNCHANGED <<bookings, rec, aux>>

NextBeat ==
    \/ \E o \in Owners, e \in JobIds :
          nextId = 1 /\ sync_bookings(o, e) /\ UNCHANGED <<ret, beat, bookings, rec, aux>>
    \/ \E o \in Owners, ok \in BOOLEAN :
          nextId = 1 /\ sync_scrape_user_without_job(o, ok) /\ Progress(nextId)
    \/ \E j \in JobIds : sync_scrape_user_with_job_tracking(j) /\ Progress(j)
    \/ \E j \in JobIds : ScrapePass(j) /\ Progress(j)
    \/ \E j \in JobIds, n \in 0..MaxBookings : ScrapeReturns(j, n) /\ Progress(j)
    \/ \E j \in JobIds, e \in ScrapeErrors : ScrapeRaises(j, e) /\ Progress(j)
    \/ \E j \in JobIds, ok \in BOOLEAN : ReportCount(j, ok) /\ Progress(j)
    \/ \E j \in JobIds, okUser, ok \in BOOLEAN : CompleteJob(j, okUser, ok) /\ Progress(j)
    \/ \E j \in JobIds, ok \in BOOLEAN : run_sync_task_in_background(j, ok) /\ Progress(j)
    \/ BeatSweep
    \/ BeatTick

SpecBeat == Init /\ [][NextBeat]_vars

\* The same together with the periodic scrape of all users.
NextAll ==
    \/ NextBeat
    \/ sync_scrape_all_users /\ UNCHANGED <<beat, bookings, rec, aux>>
SpecAll == Init /\ [][NextAll]_vars

\* The life cycle of one job under the scheduling the claims about termination assume: time
\* passes and the sweep keeps being invoked (cleanup_sync_jobs_task every 15
\* minutes, and every StartSync request).  Nothing is assumed of executors.
SpecLive == SpecBeat /\ WF_vars(BeatTick) /\ WF_vars(BeatSweep)

\* --------------------------------------- the operations on any job table
\* Rows as the life cycle leaves them, of every status and age.  An owner
\* has at most one pending row (sync_bookings inserts none while another job
\* of the owner is active) and any number of running ones (the executor
\* started without a job id inserts its own).
SampleRow(o, st, hb, age) ==
    LET new == [SyncJob(o, "pending", "Initializing sync...", NULL, FALSE)
                  EXCEPT !.started_at = age]
        run == [LoginRow(RunningRow(new)) EXCEPT !.last_updated_at = hb]
    IN  CASE st = "pending" -> new
          [] st = "running" -> run
          [] st = "completed" -> CompletedRow(run, 0)
          [] st = "failed" -> FailedRow(run, UserFriendlyError(DbError))

\* The ages that the comparisons of the sweep and the cleanup tell apart:
\* fresh, exactly at the cutoff, and beyond it.
SampleHb == {0, TimeoutMinutes, MaxHb}
SampleAge == {0, DaysToKeep, MaxAge}

SampleRows ==
    {SampleRow(o, st, 0, age) : o \in Owners, st \in Terminal, age \in SampleAge}
    \cup {SampleRow(o, "pending", 0, age) : o \in Owners, age \in {0, MaxAge}}
    \cup {SampleRow(o, "running", hb, 0) : o \in Owners, hb \in SampleHb}
    \cup {SampleRow(o, "running", MaxHb, MaxAge) : o \in Owners}

InitOps ==
    /\ nextId \in 1..(MaxJobs + 1)
    /\ jobs \in [JobIds -> SampleRows \cup {NoJob}]
    /\ \A j \in JobIds : j >= nextId => jobs[j] = NoJob
    /\ \A j, k \in JobIds :
          (jobs[j].status = "pending" /\ jobs[k].status = "pending" /\ j # k)
             => jobs[j].user_id # jobs[k].user_id
    /\ task = [j \in JobIds |-> NoTask]
    /\ allAt = 0
    /\ lastCheck \in {Never, 0}
    /\ ret = NoReturn
    /\ beat = [j \in JobIds |-> 0]
    /\ bookings = [b \in BookingIds |-> NoBooking]
    /\ rec = NoRun
    /\ sess = NoSession
    /\ hv = NoHarvest
    /\ loc = NoLocate
    /\ logs = NoLogs
    /\ exc = NoException
    /\ sw = NoSweep
    /\ tx = NoTransaction
    /\ lg = NoLogin

StartCall(o, e) == sync_bookings(o, e) /\ ret' = StartReturn(o, e) /\ UNCHANGED <<beat, bookings, rec, aux>>
StartFails(o, committed, okRecord) ==
    sync_bookings_raises(o, committed, okRecord) /\ ret' = StartRaised /\ UNCHANGED <<beat, bookings, rec, aux>>
SweepCall(t) == check_and_mark_stale_jobs(t) /\ ret' = SweepReturn(t) /\ UNCHANGED <<beat, bookings, rec, aux>>
CleanupCall(d) == cleanup_old_sync_jobs(d) /\ ret' = CleanupReturn(d) /\ UNCHANGED <<beat, bookings, rec, sess, hv, loc, exc, sw, tx, lg>>

NextOps ==
    \/ \E o \in Owners, e \in JobIds : StartCall(o, e)
    \/ SweepCall(TimeoutMinutes)
    \/ CleanupCall(DaysToKeep)
    \/ TickMinute /\ UNCHANGED <<beat, bookings, rec, aux>>
    \/ TickDay /\ UNCHANGED <<beat, bookings, rec, aux>>

SpecOps == InitOps /\ [][NextOps]_vars

\* Retention: jobs of any status and age; the loggers of their executors
\* append log rows, days pass, the cleanup runs.
RetentionRows ==
    {SampleRow(o, st, 0, age) : o \in {"u1"}, st \in Terminal \cup {"running"}, age \in SampleAge}

InitRetention ==
    /\ nextId = MaxJobs + 1
    /\ jobs \in [JobIds -> RetentionRows \cup {NoJob}]
    /\ logs = NoLogs
    /\ exc = NoException
    /\ sw = NoSweep
    /\ tx = NoTransaction
    /\ lg = NoLogin
    /\ task = [j \in JobIds |-> NoTask]
    /\ allAt = 0
    /\ lastCheck = Never
    /\ ret = NoReturn
    /\ beat = [j \in JobIds |-> 0]
    /\ bookings = [b \in BookingIds |-> NoBooking]
    /\ rec = NoRun
    /\ sess = NoSession
    /\ hv = NoHarvest
    /\ loc = NoLocate

\* sync_logger.py 34-46: the logger of job j adds a SyncJobLog row and
\* commits.  sync_job_id is a foreign key to sync_jobs.id (models.py 119-121):
\* the insert is rejected when the job is gone, and the failure is swallowed.
write_log(j, ok) ==
    /\ logs[j] < MaxLogs
    /\ logs' = [logs EXCEPT ![j] = IF ok /\ Exists(j) THEN @ + 1 ELSE @]
    /\ UNCHANGED <<life, bookings, rec, sess, hv, loc, exc, sw, tx, lg>>

NextRetention ==
    \/ \E j \in JobIds, ok \in BOOLEAN : write_log(j, ok)
    \/ CleanupCall(DaysToKeep)
    \/ TickDay /\ UNCHANGED <<beat, bookings, rec, aux>>

SpecRetention == InitRetention /\ [][NextRetention]_vars

\* StartSync alone, with both of its outcomes, from the same job tables.
NextStart ==
    \/ \E o \in Owners, e \in JobIds : StartCall(o, e)
    \/ \E o \in Owners, committed, okRecord \in BOOLEAN : StartFails(o, committed, okRecord)
    \/ TickMinute /\ UNCHANGED <<beat, bookings, rec, aux>>

SpecStart == InitOps /\ [][NextStart]_vars

\* ---------------------------------------------------------- reconciliation
\* A datetime: its wall-clock value and whether it carries tzinfo.
\* str() of an aware datetime ends in the UTC offset, of a naive one not.
DateTime(t, aware) == [t |-> t, tzinfo |-> aware]
Str(dt) == IF dt.tzinfo THEN ToString(dt.t) \o "+00:00" ELSE ToString(dt.t)

\* Prices are counted in tenths of a cent; Numeric(10, 2) keeps whole cents.
Numeric(p) == ((p + 5) \div 10) * 10

\* A rental as scrape_rentals builds it: both datetimes are made aware with
\* replace(tzinfo=timezone.utc).
Rental(id, t, status) ==
    [id |-> id, name |-> "R-" \o id,
     start_time |-> DateTime(t, TRUE), end_time |-> DateTime(t + 1, TRUE),
     studio |-> "Studio 1", location |-> "280 Broadway", status |-> status,
     price |-> 25000, record_url |-> "https://gibney.my.site.com/s/" \o id]

Rentals == {Rental(id, t, "Confirmed") : id \in BookingIds, t \in 1..MaxTime}

\* rental_data: what a harvest returns, the ids distinct (processed_ids).
Snapshots ==
    {<<>>} \cup {<<r>> : r \in Rentals}
           \cup {<<r, q>> : r \in {x \in Rentals : x.id = "a27Pb1"},
                            q \in {x \in Rentals : x.id = "a27Pb2"}}
           \cup {<<q, r>> : r \in {x \in Rentals : x.id = "a27Pb1"},
                            q \in {x \in Rentals : x.id = "a27Pb2"}}

\* What the columns of bookings hold of a written value: DateTime columns
\* are without time zone, price is Numeric(10, 2).
Column(dt) == DateTime(dt.t, FALSE)

\* The row bulk_insert_mappings stores for a rental of user o.
Booking(r, o) ==
    [user_id |-> o, name |-> r.name,
     start_time |-> Column(r.start_time), end_time |-> Column(r.end_time),
     studio |-> r.studio, location |-> r.location, status |-> r.status,
     price |-> Numeric(r.price), record_url |-> r.record_url, last_seen |-> 0]

\* Booking.create_hash and create_booking_hash: the SHA-256 of the JSON text
\* of the seven fields, kept here as that text's content.
create_hash(row) ==
    <<row.name, Str(row.start_time), Str(row.end_time), row.studio,
      row.location, row.status, row.price>>
create_booking_hash(booking_data) ==
    <<booking_data.name, Str(booking_data.start_time), Str(booking_data.end_time),
      booking_data.studio, booking_data.location, booking_data.status,
      booking_data.price>>

existing_bookings_OfAnyUser(o) == {b \in BookingIds : bookings[b] # NoBooking}
existing_bookings(o) ==
    {b \in BookingIds : bookings[b] # NoBooking /\ bookings[b].user_id = o}
scraped_ids(rental_data) == {rental_data[i].id : i \in DOMAIN rental_data}
bookings_to_delete_None(o, rental_data) == {}
bookings_to_delete(o, rental_data) == existing_bookings(o) \ scraped_ids(rental_data)

\* The positions of rental_data the loop classifies as create, update, unchanged.
bookings_to_insert(o, rental_data) ==
    {i \in DOMAIN rental_data : rental_data[i].id \notin existing_bookings(o)}
changed(o, rental_data) ==
    {i \in DOMAIN rental_data :
        /\ rental_data[i].id \in existing_bookings(o)
        /\ create_hash(bookings[rental_data[i].id]) # create_booking_hash(rental_data[i])}
not_changed(o, rental_data) ==
    {i \in DOMAIN rental_data :
        /\ rental_data[i].id \in existing_bookings(o)
        /\ create_hash(bookings[rental_data[i].id]) = create_booking_hash(rental_data[i])}

\* bulk_update_mappings of a changed record: every key but id, and last_seen.
UpdatedRow_KeepsTimes(row, r) ==
    [Booking(r, row.user_id) EXCEPT !.start_time = row.start_time,
                                    !.end_time = row.end_time, !.last_seen = 0]
UpdatedRow(row, r) == [Booking(r, row.user_id) EXCEPT !.last_seen = 0]

\* bookings after the query.delete of the rows absent from rental_data.
AfterDelete(o, rental_data) ==
    [b \in BookingIds |-> IF b \in bookings_to_delete(o, rental_data)
                          THEN NoBooking ELSE bookings[b]]

\* The database part of scrape_user_bookings(db, user, sync_logger) for the
\* rental_data a harvest returned.  The bulk insert raises IntegrityError when
\* an id to insert is the primary key of another user's row; the deletes are
\* then already committed if a sync_logger wrote its log entries, and rolled
\* back otherwise.
InsertConflict(o, rental_data) ==
    \E i \in bookings_to_insert(o, rental_data) : bookings[rental_data[i].id] # NoBooking

scrape_user_bookings(o, rental_data, logged) ==
    LET ins == bookings_to_insert(o, rental_data)
        upd == changed(o, rental_data)
        same == not_changed(o, rental_data)
        At(b) == CHOOSE i \in DOMAIN rental_data : rental_data[i].id = b
    IN  /\ IF InsertConflict(o, rental_data)
           THEN /\ bookings' = IF logged THEN AfterDelete(o, rental_data) ELSE bookings
                /\ rec' = [NoRun EXCEPT !.op = "raised", !.user = o,
                                        !.rental_data = rental_data]
           ELSE /\ bookings' =
                     [b \in BookingIds |->
                        IF b \notin scraped_ids(rental_data)
                        THEN AfterDelete(o, rental_data)[b]
                        ELSE IF At(b) \in ins THEN Booking(rental_data[At(b)], o)
                        ELSE IF At(b) \in upd THEN UpdatedRow(bookings[b], rental_data[At(b)])
                        ELSE [bookings[b] EXCEPT !.last_seen = 0]]
                /\ rec' = [op |-> "reconcile", user |-> o, rental_data |-> rental_data,
                           created |-> Cardinality(ins), updated |-> Cardinality(upd),
                           unchanged |-> Cardinality(same),
                           deleted |-> Cardinality(bookings_to_delete(o, rental_data)),
                           returned |-> Cardinality(ins) + Cardinality(upd) + Cardinality(same)]
        /\ UNCHANGED <<life, aux>>

\* Time passes: every stored last_seen is now in the past.
TickSeen ==
    /\ bookings' = [b \in BookingIds |-> IF bookings[b] = NoBooking THEN NoBooking
                                         ELSE [bookings[b] EXCEPT !.last_seen = 1]]
    /\ UNCHANGED <<life, rec, aux>>

NextRec ==
    \/ \E o \in Owners, rental_data \in Snapshots, logged \in BOOLEAN :
          scrape_user_bookings(o, rental_data, logged)
    \/ TickSeen

SpecRec == Init /\ [][NextRec]_vars

\* ------------------------------------------- a reconciliation that logs
\* scrape_user_bookings with a sync_logger, step by step.  The logger shares
\* the session db: the commit of a log entry commits whatever the session
\* holds, its rollback discards it.
\* What _create_log_entry does to its caller: its except clause swallows.
LogOutcome_Raises(ok) == IF ok THEN "returned" ELSE "raised"
LogOutcome(ok) == "returned"

\* The session after _create_log_entry, ok saying whether add and commit succeed.
create_log_entry(s, ok) ==
    [s EXCEPT !.pending = {},
              !.logs = IF ok THEN @ + 1 ELSE @,
              !.failed = @ \/ ~ok]
\* bookings after it: the commit persists the session's deletes.
LogCommit(s, ok) ==
    [b \in BookingIds |-> IF ok /\ b \in s.pending THEN NoBooking ELSE bookings[b]]

\* Lines 1241-1263: load the user's rows and issue the DELETE of the absent ones.
scrape_begin(o, rental_data) ==
    /\ sess.at = "idle"
    /\ LET del == bookings_to_delete(o, rental_data)
       IN  sess' = [at |-> IF del = {} THEN "classify" ELSE "log_deleted",
                    user |-> o, rental_data |-> rental_data, pending |-> del,
                    calls |-> Cardinality(del), logs |-> 0, failed |-> FALSE,
                    deleted |-> Cardinality(del)]
    /\ UNCHANGED <<life, bookings, rec, hv, loc, logs, exc, sw, tx, lg>>

\* Lines 1265-1273: one log_booking_processed(..., "deleted") call.
log_booking_processed(ok) ==
    /\ sess.at = "log_deleted"
    /\ bookings' = LogCommit(sess, ok)
    /\ sess' = [create_log_entry(sess, ok) EXCEPT
                  !.calls = @ - 1,
                  !.at = IF LogOutcome(ok) = "raised" THEN "raised"
                         ELSE IF sess.calls = 1 THEN "classify" ELSE "log_deleted"]
    /\ UNCHANGED <<life, rec, hv, loc, logs, exc, sw, tx, lg>>

\* Lines 1275-1372: classify, bulk insert, bulk update, commit.
scrape_finish ==
    /\ sess.at = "classify"
    /\ LET o == sess.user
           rental_data == sess.rental_data
           ins == bookings_to_insert(o, rental_data)
           upd == changed(o, rental_data)
           same == not_changed(o, rental_data)
           At(b) == CHOOSE i \in DOMAIN rental_data : rental_data[i].id = b
       IN  IF InsertConflict(o, rental_data)
           THEN /\ bookings' = bookings
                /\ rec' = [NoRun EXCEPT !.op = "raised", !.user = o,
                                        !.rental_data = rental_data]
           ELSE /\ bookings' =
                     [b \in BookingIds |->
                        IF b \notin scraped_ids(rental_data)
                        THEN (IF b \in sess.pending THEN NoBooking ELSE bookings[b])
                        ELSE IF At(b) \in ins THEN Booking(rental_data[At(b)], o)
                        ELSE IF At(b) \in upd THEN UpdatedRow(bookings[b], rental_data[At(b)])
                        ELSE [bookings[b] EXCEPT !.last_seen = 0]]
                /\ rec' = [op |-> "reconcile", user |-> o, rental_data |-> rental_data,
                           created |-> Cardinality(ins), updated |-> Cardinality(upd),
                           unchanged |-> Cardinality(same), deleted |-> sess.deleted,
                           returned |-> Cardinality(ins) + Cardinality(upd) + Cardinality(same)]
    /\ sess' = [sess EXCEPT !.at = "idle", !.pending = {}]
    /\ UNCHANGED <<life, hv, loc, logs, exc, sw, tx, lg>>

NextLog ==
    \/ \E o \in Owners, rental_data \in Snapshots : scrape_begin(o, rental_data)
    \/ \E ok \in BOOLEAN : log_booking_processed(ok)
    \/ scrape_finish

SpecLog == Init /\ [][NextLog]_vars

\* ------------------------------------------------------------- the harvest
\* GibneyScraper.scrape_rentals (scraper.py 742-1192).  The page is the
\* environment: in every pass it renders whatever rows it likes.
max_scroll_attempts == 50
MAX_NO_NEW_CONTENT_ATTEMPTS == 4

RentalName == "R-0042"
\* A rendered row: how many cells it has, whether cell 1 holds a link, the
\* record id in the link's href (NULL when neither pattern matches) and
\* whether the rest of the row parses.
HarvestRows ==
    {[cells |-> 7, link |-> FALSE, id |-> NULL, name |-> RentalName, parses |-> TRUE],
     [cells |-> 8, link |-> TRUE, id |-> NULL, name |-> RentalName, parses |-> TRUE],
     [cells |-> 8, link |-> TRUE, id |-> "a27Pb2", name |-> RentalName, parses |-> FALSE]}
    \cup {[cells |-> 8, link |-> TRUE, id |-> b, name |-> RentalName, parses |-> TRUE] :
             b \in BookingIds}
Pages == UNION {[1..n -> HarvestRows] : n \in 0..MaxRows}

\* Lines 819-828: the id of the row at enumerate index i.
record_id(row, i) ==
    IF row.id # NULL THEN row.id ELSE "unknown_" \o row.name \o "_" \o ToString(i)

\* Lines 830-835: a row whose id was met before is passed over.
AlreadyProcessed_Never(rid, processed_ids) == FALSE
AlreadyProcessed(rid, processed_ids) == rid \in processed_ids

\* Lines 807-901: the rows of one pass in order; st holds all_rentals and
\* processed_ids, and seen, the ids in the order the loop first met them.
RECURSIVE ProcessRows(_, _, _)
ProcessRows(rows, k, st) ==
    IF k > Len(rows) THEN st
    ELSE LET row == rows[k]
             rid == record_id(row, k - 1)
         IN  IF row.cells < 8 \/ ~row.link THEN ProcessRows(rows, k + 1, st)
             ELSE IF AlreadyProcessed(rid, st.processed_ids)
             THEN ProcessRows(rows, k + 1, st)
             ELSE ProcessRows(rows, k + 1,
                    [all_rentals |-> IF row.parses
                                     THEN Append(st.all_rentals, [id |-> rid, name |-> row.name])
                                     ELSE st.all_rentals,
                     processed_ids |-> st.processed_ids \cup {rid},
                     seen |-> Append(st.seen, rid)])

\* Lines 805, 834-835 and 903-911: the count a pass reports as the bookings it
\* found, raised by one right after each id it added to processed_ids.
new_rentals_count(before, after) ==
    Cardinality(after.processed_ids \ before.processed_ids)

\* Lines 1164-1167: the limit check that ends the loop.
LimitReached_Never(max_rentals, n) == FALSE
LimitReached(max_rentals, n) == max_rentals # 0 /\ n >= max_rentals

\* Lines 1169-1174 and the loop condition at 756.
CeilingReached_Never(n) == FALSE
CeilingReached(n) == n >= max_scroll_attempts

\* Lines 1188-1192: what is returned.
Truncated(all_rentals, max_rentals) ==
    IF max_rentals # 0 /\ Len(all_rentals) > max_rentals
    THEN SubSeq(all_rentals, 1, max_rentals) ELSE all_rentals

\* Lines 742-754: the locals before the loop; max_rentals 0 stands for None.
scrape_rentals(max_rentals) ==
    /\ hv.pc = "idle"
    /\ hv' = [NoHarvest EXCEPT !.pc = "loop", !.max_rentals = max_rentals]
    /\ UNCHANGED <<life, bookings, rec, sess, loc, logs, exc, sw, tx, lg>>

\* Lines 756-1174: one pass of the while loop over the rows the page shows,
\* and, when the pass leaves the loop, the return at 1188-1192.
scroll_pass(rows) ==
    /\ hv.pc = "loop"
    /\ ~CeilingReached(hv.scroll_count)
    /\ LET st == ProcessRows(rows, 1, [all_rentals |-> hv.all_rentals,
                                       processed_ids |-> hv.processed_ids,
                                       seen |-> hv.seen])
           current_row_count == Len(rows)
           same == current_row_count = hv.last_row_count
           no_new == IF same THEN hv.no_new_content_count + 1 ELSE 0
           settled == same /\ no_new >= MAX_NO_NEW_CONTENT_ATTEMPTS
           scroll_count == IF settled THEN hv.scroll_count ELSE hv.scroll_count + 1
           leaves == \/ settled
                     \/ LimitReached(hv.max_rentals, Len(st.all_rentals))
                     \/ CeilingReached(scroll_count)
       IN  hv' = [hv EXCEPT
                    !.all_rentals = st.all_rentals,
                    !.processed_ids = st.processed_ids,
                    !.seen = st.seen,
                    !.no_new_content_count = no_new,
                    !.last_row_count = IF same THEN @ ELSE current_row_count,
                    !.scroll_count = scroll_count,
                    !.passes = @ + 1,
                    !.pc = IF leaves THEN "returned" ELSE "loop",
                    !.result = IF leaves THEN Truncated(st.all_rentals, hv.max_rentals)
                               ELSE <<>>]
    /\ UNCHANGED <<life, bookings, rec, sess, loc, logs, exc, sw, tx, lg>>

NextHarvest ==
    \/ \E max_rentals \in 0..MaxLimit : scrape_rentals(max_rentals)
    \/ \E rows \in Pages : scroll_pass(rows)

SpecHarvest == Init /\ [][NextHarvest]_vars

\* Every wait inside a pass has a timeout, so a pass that has begun ends.
SpecHarvestLive == SpecHarvest /\ WF_vars(\E rows \in Pages : scroll_pass(rows))

\* ------------------------------------------------------ candidate selectors
\* The two loops that try an action over a list of candidate selectors: the
\* click of the login button (scraper.py 279-301) and the wait for the
\* rentals table (679-698).  The page is the set of selectors that match it:
\* the action raises on a selector that matches nothing and acts on one that
\* does.
button_selectors ==
    <<"button.loginButton", "button:has-text(\"Log in\")", "button[class*=\"loginButton\"]",
      "button.slds-button--brand", "button.uiButton", "button[type=\"submit\"]",
      "button[aria-label*=\"Log in\"]">>
table_selectors ==
    <<"table.forceRecordLayout", "table[class*='slds-table']", "table[class*='rental']",
      "table[class*='booking']", "table">>
\* Lines 494-501: the candidates for the link to the rentals page.
my_rentals_selectors ==
    <<"a:has-text(\"My Rentals\")", "a[href*=\"booking-item\"]", "a[href*=\"rental\"]",
      "span:has-text(\"My Rentals\")", "li:has-text(\"My Rentals\") a",
      "community_navigation-global-navigation-item:has-text(\"My Rentals\") a">>
RENTALS_URL == "https://gibney.my.site.com/s/booking-item"

\* The text of a raised exception, as the parts of its f-string: the literal
\* pieces and the values put between them.  Lines 334 and 738-740.
error_msg(list) ==
    IF list = button_selectors
    THEN <<"Could not find or click login button with any selector">>
    ELSE <<"Could not find rental table on page. Current URL: ", RENTALS_URL>>
\* Line 617 around the TimeoutError of the page.goto of lines 522-526.
goto_error_msg == <<"Failed to login: ", "Timeout 30000ms exceeded.">>

Range(list) == {list[i] : i \in DOMAIN list}

\* The break of the for loop after an attempt that did not raise.
BreaksAfter_Never(succeeded) == FALSE
BreaksAfter(succeeded) == succeeded

\* Lines 289 and 687: the loop begins with the flag cleared.
Candidates(list, dom) ==
    [pc |-> "trying", list |-> list, dom |-> dom, next |-> 1,
     attempted |-> <<>>, took_effect |-> <<>>, found |-> FALSE, error_msg |-> <<>>]

login_submit(dom) ==
    /\ loc.pc = "idle"
    /\ loc' = Candidates(button_selectors, dom)
    /\ UNCHANGED <<life, bookings, rec, sess, hv, logs, exc, sw, tx, lg>>

wait_for_table(dom) ==
    /\ loc.pc = "idle"
    /\ loc' = Candidates(table_selectors, dom)
    /\ UNCHANGED <<life, bookings, rec, sess, hv, logs, exc, sw, tx, lg>>

\* Lines 503-515: the click on the link to the rentals page, inside login.
click_my_rentals(dom) ==
    /\ loc.pc = "idle"
    /\ loc' = Candidates(my_rentals_selectors, dom)
    /\ UNCHANGED <<life, bookings, rec, sess, hv, logs, exc, sw, tx, lg>>

\* Lines 290-301, 505-515 and 688-698: one iteration; after the last one,
\* with the flag still clear, lines 303-337 and 704-740 raise
\* GibneyScrapingError and lines 517-526 go to the rentals page directly.
try_selector ==
    /\ loc.pc = "trying"
    /\ LET selector == loc.list[loc.next]
           succeeded == selector \in loc.dom
           found == loc.found \/ succeeded
           leaves == BreaksAfter(succeeded) \/ loc.next = Len(loc.list)
           raises == leaves /\ ~found /\ loc.list # my_rentals_selectors
       IN  loc' = [loc EXCEPT
                     !.attempted = Append(@, selector),
                     !.took_effect = IF succeeded THEN Append(@, selector) ELSE @,
                     !.found = found,
                     !.next = @ + 1,
                     !.pc = IF ~leaves THEN "trying"
                            ELSE IF found THEN "done"
                            ELSE IF raises THEN "raised" ELSE "fallback",
                     !.error_msg = IF raises THEN error_msg(loc.list) ELSE @]
    /\ UNCHANGED <<life, bookings, rec, sess, hv, logs, exc, sw, tx, lg>>

\* Lines 517-526: the direct navigation when no candidate for the link could
\* be clicked; a page.goto that raises is caught at 615-617.
goto_rentals(ok) ==
    /\ loc.pc = "fallback"
    /\ loc' = [loc EXCEPT !.pc = IF ok THEN "navigated" ELSE "raised",
                          !.error_msg = IF ok THEN @ ELSE goto_error_msg]
    /\ UNCHANGED <<life, bookings, rec, sess, hv, logs, exc, sw, tx, lg>>
    /\ UNCHANGED <<life, bookings, rec, sess, hv, logs, exc, sw, tx, lg>>

NextLocate ==
    \/ \E dom \in SUBSET Range(button_selectors) : login_submit(dom)
    \/ \E dom \in SUBSET Range(table_selectors) : wait_for_table(dom)
    \/ \E dom \in SUBSET Range(my_rentals_selectors) : click_my_rentals(dom)
    \/ try_selector
    \/ \E ok \in BOOLEAN : goto_rentals(ok)

SpecLocate == Init /\ [][NextLocate]_vars

\* ------------------------------------------------- the error classification
\* worker.py 251-318, the except branch of sync_scrape_user_with_job_tracking.
\* A text is the sequence of its characters, so that Python's substring test
\* and str.lower are computed, character by character, as Python computes them.
ascii_uppercase ==
    <<"A", "B", "C", "D", "E", "F", "G", "H", "I", "J", "K", "L", "M", "N",
    "O", "P", "Q", "R", "S", "T", "U", "V", "W", "X", "Y", "Z">>
ascii_lowercase ==
    <<"a", "b", "c", "d", "e", "f", "g", "h", "i", "j", "k", "l", "m", "n",
    "o", "p", "q", "r", "s", "t", "u", "v", "w", "x", "y", "z">>

\* str.lower on a text of ASCII characters.
lower(s) ==
    [i \in 1..Len(s) |->
        IF \E k \in 1..Len(ascii_uppercase) : ascii_uppercase[k] = s[i]
        THEN ascii_lowercase[CHOOSE k \in 1..Len(ascii_uppercase) : ascii_uppercase[k] = s[i]]
        ELSE s[i]]

\* Python's "sub in s" on texts.
Contains(sub, s) ==
    \E i \in 1..(Len(s) - Len(sub) + 1) : SubSeq(s, i, i + Len(sub) - 1) = sub

\* The text as one string, for the f-string of the last branch.
RECURSIVE Format(_)
Format(s) == IF s = <<>> THEN "" ELSE Head(s) \o Format(Tail(s))

\* The literals of the chain, worker.py 274-308.
kw_Invalid_credentials ==
    <<"I", "n", "v", "a", "l", "i", "d", " ", "c", "r", "e", "d", "e", "n",
    "t", "i", "a", "l", "s">>
kw_Login_failed ==
    <<"L", "o", "g", "i", "n", " ", "f", "a", "i", "l", "e", "d">>
kw_timeout ==
    <<"t", "i", "m", "e", "o", "u", "t">>
kw_network ==
    <<"n", "e", "t", "w", "o", "r", "k">>
kw_connection ==
    <<"c", "o", "n", "n", "e", "c", "t", "i", "o", "n">>
kw_database ==
    <<"d", "a", "t", "a", "b", "a", "s", "e">>
kw_browser ==
    <<"b", "r", "o", "w", "s", "e", "r">>
kw_playwright ==
    <<"p", "l", "a", "y", "w", "r", "i", "g", "h", "t">>
kw_invalidtoken ==
    <<"i", "n", "v", "a", "l", "i", "d", "t", "o", "k", "e", "n">>
kw_decrypt ==
    <<"d", "e", "c", "r", "y", "p", "t">>
\* worker.py 270: the replacement for an InvalidToken without text.
Invalid_encryption_token ==
    <<"I", "n", "v", "a", "l", "i", "d", " ", "e", "n", "c", "r", "y", "p",
    "t", "i", "o", "n", " ", "t", "o", "k", "e", "n">>
InvalidToken ==
    <<"I", "n", "v", "a", "l", "i", "d", "T", "o", "k", "e", "n">>

\* worker.py 267-272: str(e), and what replaces it when it is empty.
error_message(e) ==
    IF e.text = <<>> /\ e.name = InvalidToken THEN Invalid_encryption_token
    ELSE IF e.text = <<>> THEN e.name
    ELSE e.text

\* worker.py 274-318: the if/elif chain that chooses user_friendly_error.
user_friendly_error(e) ==
    LET m == error_message(e)
        l == lower(m)
    IN  IF Contains(kw_Invalid_credentials, m) \/ Contains(kw_Login_failed, m)
        THEN "Invalid Gibney credentials. Please update your login information."
        ELSE IF Contains(kw_timeout, l)
        THEN "Connection timed out. Gibney website may be slow or unavailable."
        ELSE IF Contains(kw_network, l) \/ Contains(kw_connection, l)
        THEN "Network error. Please check your internet connection."
        ELSE IF Contains(kw_database, l)
        THEN "Database error. Please try again later."
        ELSE IF Contains(kw_browser, l) \/ Contains(kw_playwright, l)
        THEN "Browser automation error. Please contact support."
        ELSE IF Contains(kw_invalidtoken, l) \/ Contains(kw_decrypt, l)
        THEN "Failed to decrypt Gibney credentials. Please update your login information."
        ELSE "Sync error: " \o Format(m)

\* The exceptions that reach the except branch have a type name and a text.  The
\* texts are empty, one fragment, or two fragments with a space between.
Fragments == {
    <<"I", "n", "v", "a", "l", "i", "d", " ", "c", "r", "e", "d", "e", "n",
    "t", "i", "a", "l", "s">>,
    <<"i", "n", "v", "a", "l", "i", "d", " ", "c", "r", "e", "d", "e", "n",
    "t", "i", "a", "l", "s">>,
    <<"L", "o", "g", "i", "n", " ", "f", "a", "i", "l", "e", "d">>,
    <<"T", "i", "m", "e", "o", "u", "t">>,
    <<"n", "e", "t", "w", "o", "r", "k">>,
    <<"C", "o", "n", "n", "e", "c", "t", "i", "o", "n">>,
    <<"d", "a", "t", "a", "b", "a", "s", "e">>,
    <<"P", "l", "a", "y", "w", "r", "i", "g", "h", "t">>,
    <<"b", "r", "o", "w", "s", "e", "r">>,
    <<"I", "n", "v", "a", "l", "i", "d", "T", "o", "k", "e", "n">>,
    <<"d", "e", "c", "r", "y", "p", "t">>,
    <<"e", "r", "r", "o", "r">>
}
TypeNames == {
    <<"I", "n", "v", "a", "l", "i", "d", "T", "o", "k", "e", "n">>,
    <<"T", "i", "m", "e", "o", "u", "t", "E", "r", "r", "o", "r">>,
    <<"V", "a", "l", "u", "e", "E", "r", "r", "o", "r">>
}
Texts ==
    {<<>>} \cup Fragments \cup {a \o <<" ">> \o b : a \in Fragments, b \in Fragments}

InitClassify ==
    /\ jobs = [j \in JobIds |-> NoJob]
    /\ nextId = 1
    /\ task = [j \in JobIds |-> NoTask]
    /\ allAt = 0
    /\ lastCheck = Never
    /\ ret = NoReturn
    /\ beat = [j \in JobIds |-> 0]
    /\ bookings = [b \in BookingIds |-> NoBooking]
    /\ rec = NoRun
    /\ sess = NoSession
    /\ hv = NoHarvest
    /\ loc = NoLocate
    /\ logs = NoLogs
    /\ exc \in [name : TypeNames, text : Texts, user_friendly_error : {NULL}]
    /\ sw = NoSweep
    /\ tx = NoTransaction
    /\ lg = NoLogin

\* The except branch up to the choice of the message.
classify_exception ==
    /\ exc.user_friendly_error = NULL
    /\ exc' = [exc EXCEPT !.user_friendly_error = user_friendly_error(exc)]
    /\ UNCHANGED <<life, bookings, rec, sess, hv, loc, logs, sw, tx, lg>>

NextClassify == classify_exception

SpecClassify == InitClassify /\ [][NextClassify]_vars

\* ------------------------------------------------------------ the login wait
\* scraper.py 340-488: GibneyScraper.login after the click on the submit
\* button.  The waits for the redirect swallow their own timeouts (360, 397,
\* 415), so a wait that ran out only leaves redirect_success False; what is
\* raised then depends on the page the browser is on.
\* scraper.py 22.
LOGIN_URL ==
    <<"h", "t", "t", "p", "s", ":", "/", "/", "g", "i", "b", "n", "e", "y",
    ".", "m", "y", ".", "s", "i", "t", "e", ".", "c", "o", "m", "/", "s",
    "/", "l", "o", "g", "i", "n">>
\* Line 432: the text looked for in the page's URL.
kw_login_path ==
    <<"/", "l", "o", "g", "i", "n">>
\* Line 163: the name of the exception type.
GibneyScrapingError ==
    <<"G", "i", "b", "n", "e", "y", "S", "c", "r", "a", "p", "i", "n", "g",
    "E", "r", "r", "o", "r">>
\* Lines 457-459.
Invalid_credentials_Please_check ==
    <<"I", "n", "v", "a", "l", "i", "d", " ", "c", "r", "e", "d", "e", "n",
    "t", "i", "a", "l", "s", ".", " ", "P", "l", "e", "a", "s", "e", " ",
    "c", "h", "e", "c", "k", " ", "y", "o", "u", "r", " ", "G", "i", "b",
    "n", "e", "y", " ", "u", "s", "e", "r", "n", "a", "m", "e", " ", "a",
    "n", "d", " ", "p", "a", "s", "s", "w", "o", "r", "d", ".">>
\* Lines 469-471.
Login_failed_stuck ==
    <<"L", "o", "g", "i", "n", " ", "f", "a", "i", "l", "e", "d", " ", "-",
    " ", "s", "t", "u", "c", "k", " ", "o", "n", " ", "l", "o", "g", "i",
    "n", " ", "p", "a", "g", "e", ".", " ", "T", "h", "e", " ", "s", "i",
    "t", "e", " ", "m", "a", "y", " ", "h", "a", "v", "e", " ", "c", "h",
    "a", "n", "g", "e", "d", " ", "i", "t", "s", " ", "l", "o", "g", "i",
    "n", " ", "p", "r", "o", "c", "e", "s", "s", ".">>
\* Lines 473-475: the text before the URL.
Login_redirect_failed ==
    <<"L", "o", "g", "i", "n", " ", "r", "e", "d", "i", "r", "e", "c", "t",
    " ", "f", "a", "i", "l", "e", "d", " ", "-", " ", "e", "n", "d", "e",
    "d", " ", "u", "p", " ", "o", "n", " ", "u", "n", "e", "x", "p", "e",
    "c", "t", "e", "d", " ", "p", "a", "g", "e", ":", " ">>
\* Lines 484-486.
Login_timed_out ==
    <<"L", "o", "g", "i", "n", " ", "t", "i", "m", "e", "d", " ", "o", "u",
    "t", ".", " ", "T", "h", "e", " ", "G", "i", "b", "n", "e", "y", " ",
    "w", "e", "b", "s", "i", "t", "e", " ", "i", "s", " ", "r", "e", "s",
    "p", "o", "n", "d", "i", "n", "g", " ", "s", "l", "o", "w", "l", "y",
    ".", " ", "P", "l", "e", "a", "s", "e", " ", "t", "r", "y", " ", "a",
    "g", "a", "i", "n", " ", "l", "a", "t", "e", "r", ".">>
\* Line 617: the text before the caught exception's.
Failed_to_login ==
    <<"F", "a", "i", "l", "e", "d", " ", "t", "o", " ", "l", "o", "g", "i",
    "n", ":", " ">>
\* The pages the browser can be on when the wait is over: the login page, the
\* home page, and a page whose address holds the word the handler of line 483
\* looks for.
Urls == {
    LOGIN_URL,
    <<"h", "t", "t", "p", "s", ":", "/", "/", "g", "i", "b", "n", "e", "y",
    ".", "m", "y", ".", "s", "i", "t", "e", ".", "c", "o", "m", "/", "s",
    "/">>,
    <<"h", "t", "t", "p", "s", ":", "/", "/", "g", "i", "b", "n", "e", "y",
    ".", "m", "y", ".", "s", "i", "t", "e", ".", "c", "o", "m", "/", "s",
    "/", "t", "i", "m", "e", "o", "u", "t">>
}

\* Lines 435-442: the elements that show a rejected login.
error_selectors ==
    <<".error", "[class*=\"error\"]", "[role=\"alert\"]", ".slds-text-color_error",
      "div:has-text(\"Invalid username or password\")",
      "div:has-text(\"Your login attempt has failed\")">>

\* Lines 477-488: the handler around the wait turns an exception whose text
\* holds "timeout" into the timed-out error and re-raises any other.
reraised(text) ==
    IF Contains(kw_timeout, lower(text)) THEN Login_timed_out ELSE text

\* Lines 615-617: the handler around the whole of login wraps what it caught.
login_error(text) ==
    [name |-> GibneyScrapingError, text |-> Failed_to_login \o reraised(text),
     user_friendly_error |-> NULL]

\* Lines 340-432 and 472-475, inside the scrape of job j: the waits, then the
\* page's URL.  dom is the set of error selectors that find an element with
\* text on the page.
login_wait(j, redirect_success, url, dom) ==
    /\ task[j].pc = "scraping"
    /\ lg.pc = "idle"
    /\ IF redirect_success
       THEN /\ lg' = [NoLogin EXCEPT !.pc = "logged_in", !.job = j]
            /\ UNCHANGED exc
       ELSE IF Contains(kw_login_path, url)
       THEN /\ lg' = [NoLogin EXCEPT !.pc = "errors", !.job = j, !.url = url, !.dom = dom]
            /\ UNCHANGED exc
       ELSE /\ lg' = [NoLogin EXCEPT !.pc = "raised", !.job = j, !.url = url, !.dom = dom]
            /\ exc' = login_error(Login_redirect_failed \o url)
    /\ UNCHANGED <<life, bookings, rec, sess, hv, loc, logs, sw, tx>>

\* Lines 444-452: one iteration of the loop over error_selectors; after the
\* last one, lines 454-471 raise by whether a message was collected.
query_error_selector ==
    /\ lg.pc = "errors"
    /\ LET selector == error_selectors[lg.next]
           error_messages == lg.error_messages + (IF selector \in lg.dom THEN 1 ELSE 0)
           last == lg.next = Len(error_selectors)
       IN  /\ lg' = [lg EXCEPT !.next = @ + 1,
                               !.error_messages = error_messages,
                               !.pc = IF last THEN "raised" ELSE "errors"]
           /\ exc' = IF ~last THEN exc
                     ELSE IF error_messages > 0
                     THEN login_error(Invalid_credentials_Please_check)
                     ELSE login_error(Login_failed_stuck)
    /\ UNCHANGED <<life, bookings, rec, sess, hv, loc, logs, sw, tx>>

\* worker.py 251-352 for the exception login raised: the message is chosen by
\* the chain of 274-318 and written with the failed status; ok1 and ok2 say
\* whether the write and its retry succeed, raises whether the last rollback
\* raises.
login_raises(j, ok1, ok2, raises) ==
    /\ lg.pc = "raised"
    /\ lg.job = j
    /\ task[j].pc = "scraping"
    /\ LET msg == user_friendly_error(exc)
           wrote1 == ok1 /\ Exists(j)
           wrote2 == ~wrote1 /\ ok2 /\ Exists(j)
       IN  /\ exc' = [exc EXCEPT !.user_friendly_error = msg]
           /\ jobs' = [jobs EXCEPT ![j] = IF wrote1 THEN FailedRow(@, msg)
                                          ELSE IF wrote2 THEN RetriedRow(@, msg)
                                          ELSE @]
           /\ task' = [task EXCEPT ![j].pc =
                         IF ~wrote1 /\ ~wrote2 /\ raises THEN "escaped" ELSE "done",
                                   ![j].successful =
                         IF ~wrote1 /\ ~wrote2 /\ raises THEN NULL ELSE "False"]
    /\ lg' = [lg EXCEPT !.pc = "recorded"]
    /\ UNCHANGED <<nextId, allAt, lastCheck, ret, beat, bookings, rec, sess, hv, loc,
                   logs, sw, tx>>

NextLogin ==
    \/ \E o \in Owners, e \in JobIds :
          nextId = 1 /\ sync_bookings(o, e) /\ UNCHANGED <<ret, beat, bookings, rec, aux>>
    \/ \E j \in JobIds : sync_scrape_user_with_job_tracking(j) /\ Progress(j)
    \/ \E j \in JobIds, redirect_success \in BOOLEAN, url \in Urls,
          dom \in SUBSET Range(error_selectors) :
          login_wait(j, redirect_success, url, dom)
    \/ query_error_selector
    \/ \E j \in JobIds, ok1, ok2, raises \in BOOLEAN : login_raises(j, ok1, ok2, raises)

SpecLogin == Init /\ [][NextLogin]_vars


\* ------------------------------------------- the sweep in two processes
\* worker.py 573-632.  _last_stale_check_time is a module global, so the API
\* server and the Celery worker each hold one.  Neither process runs two
\* calls at once (the endpoints are coroutines that do not await inside the
\* call; the worker's pool is solo), but the calls of one process interleave
\* with those of the other between the stamp and the query.
Skipped(p) == sw.stamp[p] # Never /\ sw.stamp[p] < stale_check_interval

\* Lines 582-593: the rate limiter, and the stamp of a call that goes on.
sweep_check(p) ==
    /\ sw.pc[p] = "idle"
    /\ IF Skipped(p)
       THEN /\ ret' = [op |-> "sweep_skipped", job |-> 0, status |-> NULL, n |-> 0]
            /\ UNCHANGED sw
       ELSE /\ sw' = [sw EXCEPT !.stamp[p] = 0, !.pc[p] = "querying"]
            /\ UNCHANGED ret
    /\ UNCHANGED <<jobs, nextId, task, allAt, lastCheck, beat, bookings, rec, sess, hv, loc, logs, exc, tx, lg>>

\* Lines 595-627: the query for stale jobs, their marking and the commit.
sweep_query(p, timeout) ==
    /\ sw.pc[p] = "querying"
    /\ jobs' = [j \in JobIds |-> IF j \in StaleJobs(timeout)
                                 THEN MarkStale(jobs[j], timeout) ELSE jobs[j]]
    /\ ret' = [op |-> "sweep", job |-> 0, status |-> NULL,
               n |-> Cardinality(StaleJobs(timeout))]
    /\ sw' = [sw EXCEPT !.pc[p] = "idle"]
    /\ UNCHANGED <<nextId, task, allAt, lastCheck, beat, bookings, rec, sess, hv, loc, logs, exc, tx, lg>>

\* A minute passes in both processes.
TickProcesses ==
    /\ TickMinute
    /\ sw' = [sw EXCEPT !.stamp = [p \in Processes |->
                 IF sw.stamp[p] = Never THEN Never
                 ELSE Older(sw.stamp[p], stale_check_interval)]]
    /\ UNCHANGED <<beat, bookings, rec, sess, hv, loc, logs, exc, tx, lg>>

InitSweep ==
    /\ jobs \in [JobIds -> {SampleRow(o, "running", hb, 0) : o \in Owners, hb \in SampleHb}
                           \cup {NoJob}]
    /\ nextId = MaxJobs + 1
    /\ task = [j \in JobIds |-> NoTask]
    /\ allAt = 0
    /\ lastCheck = Never
    /\ ret = NoReturn
    /\ beat = [j \in JobIds |-> 0]
    /\ bookings = [b \in BookingIds |-> NoBooking]
    /\ rec = NoRun
    /\ sess = NoSession
    /\ hv = NoHarvest
    /\ loc = NoLocate
    /\ logs = NoLogs
    /\ exc = NoException
    /\ sw = NoSweep
    /\ tx = NoTransaction
    /\ lg = NoLogin

NextSweep ==
    \/ \E p \in Processes : sweep_check(p)
    \/ \E p \in Processes : sweep_query(p, TimeoutMinutes)
    \/ TickProcesses

SpecSweep == InitSweep /\ [][NextSweep]_vars

\* ------------------------------------- the transactions of a reconciliation
\* scrape_user_bookings without a logger (scraper.py 1258-1372), its row
\* writes counted: the DELETE of the absent rows, then the inserts and the
\* updates in slices of BATCH_SIZE, a commit after each slice, a last commit.
BATCH_SIZE == 100

\* The sizes of a work list that the slicing tells apart.
ListSizes == {0, 1, BATCH_SIZE, BATCH_SIZE + 1, 2 * BATCH_SIZE + 1}

Min(a, b) == IF a < b THEN a ELSE b
Max(a, b) == IF a > b THEN a ELSE b

\* db.commit(): the open transaction becomes persistent.
Commit(t) ==
    [t EXCEPT !.committed = @ + t.open, !.open = 0, !.largest = Max(@, t.open)]

\* Lines 1395-1399: an exception rolls the open transaction back.
Rollback(t) == [t EXCEPT !.open = 0, !.pc = "raised"]

NextList(t) ==
    IF t.pc = "delete" /\ t.to_insert > 0 THEN "insert"
    ELSE IF t.pc \in {"delete", "insert"} /\ t.to_update > 0 THEN "update"
    ELSE "commit"

\* Lines 1250-1263: one DELETE statement for all absent rows, not committed.
delete_absent(d, n, u) ==
    /\ tx.pc = "idle"
    /\ LET t == [NoTransaction EXCEPT !.pc = "delete", !.to_delete = d,
                                      !.to_insert = n, !.to_update = u, !.open = d]
       IN  tx' = [t EXCEPT !.pc = NextList(t)]
    /\ UNCHANGED <<life, bookings, rec, sess, hv, loc, logs, exc, sw, lg>>

\* Lines 1347-1350 and 1363-1366: one slice of the list and its commit.
Batch(t, len, ok) ==
    LET batch == Min(BATCH_SIZE, len - t.i)
        wrote == [t EXCEPT !.open = @ + batch]
        last == t.i + BATCH_SIZE >= len
    IN  IF ok
        THEN [Commit(wrote) EXCEPT !.i = IF last THEN 0 ELSE t.i + BATCH_SIZE,
                                   !.pc = IF last THEN NextList(t) ELSE t.pc]
        ELSE Rollback(wrote)

insert_batch(ok) ==
    /\ tx.pc = "insert"
    /\ tx' = Batch(tx, tx.to_insert, ok)
    /\ UNCHANGED <<life, bookings, rec, sess, hv, loc, logs, exc, sw, lg>>

update_batch(ok) ==
    /\ tx.pc = "update"
    /\ tx' = Batch(tx, tx.to_update, ok)
    /\ UNCHANGED <<life, bookings, rec, sess, hv, loc, logs, exc, sw, lg>>

\* Line 1372: the final commit.
final_commit(ok) ==
    /\ tx.pc = "commit"
    /\ tx' = IF ok THEN [Commit(tx) EXCEPT !.pc = "returned"] ELSE Rollback(tx)
    /\ UNCHANGED <<life, bookings, rec, sess, hv, loc, logs, exc, sw, lg>>

NextBatch ==
    \/ \E d, n, u \in ListSizes : delete_absent(d, n, u)
    \/ \E ok \in BOOLEAN : insert_batch(ok)
    \/ \E ok \in BOOLEAN : update_batch(ok)
    \/ \E ok \in BOOLEAN : final_commit(ok)

SpecBatch == Init /\ [][NextBatch]_vars

\* ----------------------------------------------------------------- claims
\* C1: for every owner, at most one SyncJob of that owner has status
\* pending or running, in every reachable state.
C1_AtMostOneActivePerOwner ==
    \A o \in Owners : Cardinality(ActiveJobs(o)) <= 1

\* C2 (checked under Spec): once a SyncJob is completed or failed, no later step changes any
\* field of its row; the only change allowed is the deletion of the row.
C2_TerminalRowsImmutable ==
    [][\A j \in JobIds :
         (Exists(j) /\ jobs[j].status \in Terminal)
            => (jobs'[j] = jobs[j] \/ jobs'[j] = NoJob)]_vars

\* C3 (checked under SpecRec): reconciling an owner against a snapshot and
\* then again against the same snapshot counts, on the second run, nothing
\* created, updated or deleted and every record unchanged, and changes no
\* stored field other than last_seen.
SameButLastSeen(a, b) ==
    \/ a = b
    \/ a # NoBooking /\ b # NoBooking /\ [a EXCEPT !.last_seen = 0] = [b EXCEPT !.last_seen = 0]
C3_SecondRunChangesNothing ==
    [][(/\ rec.op = "reconcile" /\ rec'.op = "reconcile"
        /\ rec'.user = rec.user /\ rec'.rental_data = rec.rental_data
        /\ scrape_user_bookings(rec.user, rec.rental_data, TRUE))
          => /\ rec'.created = 0 /\ rec'.updated = 0 /\ rec'.deleted = 0
             /\ rec'.unchanged = Len(rec.rental_data)
             /\ \A b \in BookingIds : SameButLastSeen(bookings'[b], bookings[b])]_vars

\* C4 (checked under SpecRec): a reconciliation that returns normally counts
\* as created the records whose id the owner has no row for, as unchanged
\* those whose stored row hashes like the record and as updated those whose
\* row hashes differently; it deletes the owner's rows whose id is not in the
\* snapshot; afterwards the owner's ids are the snapshot's ids and
\* created + updated + unchanged is the snapshot's size.
OwnedBy(tbl, o) == {b \in BookingIds : tbl[b] # NoBooking /\ tbl[b].user_id = o}
TimedOut(row) == row.status = "running" /\ row.last_updated_at > TimeoutMinutes
StillActive(j, o) ==
    /\ Exists(j) /\ jobs[j].user_id = o /\ jobs[j].status \in Active
    /\ (SweepSkipped \/ ~TimedOut(jobs[j]))
C5_DuplicateStartAnswersExisting ==
    [][\A o \in Owners, e \in JobIds :
         StartCall(o, e) =>
           /\ (\E j \in JobIds : StillActive(j, o)) =>
                /\ ret'.op = "already"
                /\ StillActive(ret'.job, o)
                /\ ret'.status = jobs[ret'.job].status
                /\ {j \in JobIds : jobs'[j] # NoJob} = {j \in JobIds : Exists(j)}
                /\ task' = task
           /\ (ret.op \in {"started", "already"} /\ StillActive(ret.job, o)) =>
                /\ ret'.job = ret.job
                /\ Cardinality({j \in JobIds : jobs'[j] # NoJob /\ jobs'[j].user_id = o
                                               /\ jobs'[j].status \in Active}) = 1]_vars

C7_RunningLeadsToTerminal ==
    \A j \in JobIds :
       (Exists(j) /\ jobs[j].status = "running")
          ~> (~Exists(j) \/ jobs[j].status \in Terminal)

\* A running job whose executor never finished was failed by the sweep.
C7_Witness ==
    \E j \in JobIds :
       /\ task[j].pc = "scraping"
       /\ jobs[j].status = "failed"
       /\ jobs[j].progress = "Sync failed due to timeout"

\* C8 (checked under SpecAll): for no owner are two executions of
\* scrape_user_bookings under way at once, counting those of manual jobs,
\* of jobs force-failed while running, and of the periodic all-users scrape.
C8_OneReconciliationPerOwner ==
    \A o \in Owners :
       Cardinality(Reconciling(o)) + (IF ReconcilingAll(o) THEN 1 ELSE 0) <= 1

\* C9 (checked under SpecBeat): the sweep fails a running job only when its
\* executor has made no progress for longer than the timeout.
C9_SweepFailsOnlyStoppedExecutors ==
    [][\A j \in JobIds :
         (Exists(j) /\ jobs[j].status = "running" /\ jobs'[j].status = "failed"
            /\ jobs'[j].progress = "Sync failed due to timeout")
           => beat[j] > TimeoutMinutes]_vars

\* C10 (checked under SpecOps): CleanupOldJobs(days) deletes exactly the jobs
\* that are completed or failed and whose started_at is older than
\* now - days, and returns how many they are; every other job, pending and
\* running ones of any age included, still exists unchanged.
Expired(row) == row.status \in {"completed", "failed"} /\ row.started_at > DaysToKeep
C11_StoredRowHashesLikeItsRecord ==
    rec.op = "reconcile" =>
       \A i \in DOMAIN rec.rental_data :
          create_hash(bookings[rec.rental_data[i].id])
             = create_booking_hash(rec.rental_data[i])

\* C12 as stated (checked under SpecBeat): when scrape_user_bookings raises,
\* the executor returns without raising, its job is failed with an error
\* message and completed_at set, and the result reports successful = false.
ReturnedFailure(j) ==
    /\ task'[j].pc = "done" /\ task'[j].successful = "False"
    /\ jobs'[j].status = "failed"
    /\ jobs'[j].error_message # NULL
    /\ jobs'[j].completed_at
C12_ExceptionAlwaysRecorded ==
    [][\A j \in JobIds :
         (task[j].pc = "scraping" /\ task'[j].pc \in {"done", "escaped"})
            => ReturnedFailure(j)]_vars

\* C12 amended (checked under SpecBeat): when scrape_user_bookings raises
\* and the write of the failed status or its one retry succeeds, the
\* executor returns without raising, its job is failed with an error message
\* and completed_at set, and the result reports successful = false.
C12_ExceptionRecordedIfWritten ==
    [][\A j \in JobIds, e \in ScrapeErrors, ok1, ok2, rb \in BOOLEAN :
         (ScrapeRaisesWith(j, e, ok1, ok2, rb) /\ (ok1 \/ ok2))
            => ReturnedFailure(j)]_vars

\* The harvest raised, the executor returned successful = false and the job
\* carries the message chosen for the exception.
C12_Witness ==
    \E j \in JobIds :
       /\ task[j].pc = "done" /\ task[j].successful = "False"
       /\ jobs[j].status = "failed" /\ jobs[j].completed_at
       /\ jobs[j].error_message
             = "Invalid Gibney credentials. Please update your login information."

\* C13 (checked under SpecBeat): no failure of a job-record write keeps the
\* harvest from running: an execution that has started for its job goes on
\* to scrape_user_bookings.
C13_WriteFailureDoesNotAbort ==
    [][\A j \in JobIds :
         (task[j].pc = "queued" /\ task'[j].pc # "queued")
            => task'[j].pc = "scraping"]_vars

C15_CompletedJobCarriesItsCount ==
    \A j \in JobIds :
       (task[j].pc = "done" /\ task[j].successful = "True" /\ jobs[j].status = "completed")
          => (jobs[j].bookings_synced = task[j].found /\ jobs[j].completed_at)

\* C16 (checked under SpecOps): performed sweeps are at least the fixed
\* interval apart.  A call made less than stale_check_interval after the last
\* performed sweep changes no job, returns 0 and leaves the time of the last
\* performed sweep alone; a sweep is performed only when none was performed
\* before or the last one is at least the interval old.
C16_SweepRateLimited ==
    [][SweepCall(TimeoutMinutes) =>
         /\ (lastCheck # Never /\ lastCheck < stale_check_interval)
               => (jobs' = jobs /\ ret'.n = 0 /\ ret'.op = "sweep_skipped"
                   /\ lastCheck' = lastCheck)
         /\ ret'.op = "sweep"
               => (lastCheck = Never \/ lastCheck >= stale_check_interval)]_vars

\* A call was skipped although a running job had timed out, and a later call,
\* once the interval had passed, has not yet been made.
C16_Witness ==
    /\ ret.op = "sweep_skipped" /\ lastCheck = 0
    /\ \E j \in JobIds : jobs[j].status = "running" /\ jobs[j].last_updated_at > TimeoutMinutes

\* C17 (checked under SpecHarvestLive): whatever rows the page renders, and
\* however they change from pass to pass, a harvest makes at most
\* max_scroll_attempts passes, the pass that reaches the ceiling returns, a
\* harvest without a limit returns the records it has collected, and every
\* harvest that has begun returns.
C17_Bounded ==
    /\ hv.passes <= max_scroll_attempts
    /\ hv.passes = max_scroll_attempts => hv.pc = "returned"
    /\ (hv.pc = "returned" /\ hv.max_rentals = 0) => hv.result = hv.all_rentals
C17_HarvestEndsByCeiling ==
    /\ []C17_Bounded
    /\ (hv.pc = "loop") ~> (hv.pc = "returned")

\* A harvest whose page never settled returned at the ceiling with the
\* records it had collected.
C17_Witness ==
    /\ hv.pc = "returned" /\ hv.passes = max_scroll_attempts
    /\ hv.scroll_count = max_scroll_attempts
    /\ hv.max_rentals = 0 /\ Len(hv.result) >= 2

\* C18 (checked under SpecHarvest): the records a harvest holds, and the
\* snapshot it returns, never contain two records with the same id: a row
\* whose id the loop has met before, in an earlier pass or earlier in the
\* same pass, is not appended again, and the records stand in the order in
\* which their ids were first met.
SightedAt(id) == CHOOSE k \in DOMAIN hv.seen : hv.seen[k] = id
InOrderOfSighting(records) ==
    \A i, j \in DOMAIN records :
       /\ records[i].id \in hv.processed_ids
       /\ i < j => SightedAt(records[i].id) < SightedAt(records[j].id)
C18_NoDuplicateIds ==
    /\ \A i, j \in DOMAIN hv.seen : i # j => hv.seen[i] # hv.seen[j]
    /\ InOrderOfSighting(hv.all_rentals)
    /\ InOrderOfSighting(hv.result)

\* A harvest returned two records although the page showed one of them
\* again in a later pass and a row without a record id beside them.
C18_Witness ==
    /\ hv.pc = "returned" /\ hv.passes >= 5 /\ hv.scroll_count < hv.passes
    /\ Len(hv.result) = 3
    /\ hv.result[1].id = "a27Pb2" /\ hv.result[2].id = "a27Pb1"

\* C19 (checked under SpecHarvest): a harvest called with a limit L > 0
\* returns at most L records, namely the first L it collected in the order it
\* collected them (all of them when it collected fewer), and it begins no
\* further pass once it holds at least L records.
C19_LimitStopsHarvest ==
    hv.max_rentals > 0 =>
       /\ hv.pc = "loop" => Len(hv.all_rentals) < hv.max_rentals
       /\ hv.pc = "returned" =>
            /\ Len(hv.result) <= hv.max_rentals
            /\ Len(hv.result) <= Len(hv.all_rentals)
            /\ Len(hv.result) < hv.max_rentals => Len(hv.result) = Len(hv.all_rentals)
            /\ \A i \in DOMAIN hv.result : hv.result[i] = hv.all_rentals[i]

\* A harvest with limit 1 collected two records in its first pass and
\* returned the first of them.
C19_Witness ==
    /\ hv.pc = "returned" /\ hv.max_rentals = 1 /\ hv.passes = 1
    /\ Len(hv.all_rentals) = 2 /\ hv.result = <<hv.all_rentals[1]>>

\* C20 (checked under SpecLocate): an action over a list of candidate
\* selectors attempts the candidates in list order without skipping any; it
\* acts at most once, through the first candidate that matches the page;
\* when it has acted, no later candidate has been attempted and the
\* candidates attempted before left no effect; when no candidate matches,
\* every candidate has been attempted, nothing has taken effect and the
\* loop ends in an error.
FirstMatch == CHOOSE i \in DOMAIN loc.list :
                 /\ loc.list[i] \in loc.dom
                 /\ \A k \in 1..(i - 1) : loc.list[k] \notin loc.dom
C20_FirstSuccessOnly ==
    /\ Len(loc.attempted) <= Len(loc.list)
    /\ \A n \in DOMAIN loc.attempted : loc.attempted[n] = loc.list[n]
    /\ Len(loc.took_effect) <= 1
    /\ loc.pc = "trying" => (loc.took_effect = <<>> /\ Len(loc.attempted) = loc.next - 1)
    /\ loc.pc = "done" =>
          /\ loc.took_effect = <<loc.list[FirstMatch]>>
          /\ Len(loc.attempted) = FirstMatch
    /\ loc.pc = "raised" =>
          /\ loc.took_effect = <<>> /\ loc.attempted = loc.list
          /\ loc.dom \cap Range(loc.list) = {}

\* Only the third and the fifth candidate match the page: the login button
\* was clicked through the third, after two failed attempts, and the later
\* candidates were not tried.
C20_Witness ==
    /\ loc.pc = "done" /\ loc.list = button_selectors
    /\ loc.dom = {button_selectors[3], button_selectors[5]}
    /\ loc.attempted = SubSeq(button_selectors, 1, 3)
    /\ loc.took_effect = <<button_selectors[3]>>

\* C21 (checked under SpecStart): a StartSync that answers, for an owner who
\* after the sweep has no pending or running job (earlier completed or
\* failed jobs of the owner do not count), inserts exactly one job, with
\* status pending and for that owner, hands off exactly one execution, of
\* that job, and answers "started" with its id.
NoActiveJob(o) ==
    \A j \in JobIds :
       LET row == SweptJobs(TimeoutMinutes)[j]
       IN  row # NoJob => (row.user_id # o \/ row.status \in Terminal)
C22_ErrorAndCompletionFitStatus ==
    \A j \in JobIds :
       Exists(j) =>
          /\ jobs[j].error_message # NULL => jobs[j].status = "failed"
          /\ jobs[j].completed_at => jobs[j].status \in Terminal

\* C23 (checked under SpecRec): a booking is identified by its owner and its
\* id together, so a reconciliation never fails because an id of its
\* snapshot is stored for another owner: it ends normally and the owner
\* then holds a row of their own for every id of the snapshot.
C23_IdentityIsOwnerAndId ==
    /\ rec.op # "raised"
    /\ rec.op = "reconcile" =>
          \A i \in DOMAIN rec.rental_data :
             /\ bookings[rec.rental_data[i].id] # NoBooking
             /\ bookings[rec.rental_data[i].id].user_id = rec.user

\* C24 (checked under SpecRetention): every SyncJobLog row belongs to a job
\* that exists, in every reachable state; the cleanup deletes, together with
\* each job it deletes, all log rows of that job, and leaves the log rows of
\* every other job as they were.
C24_LogsHaveTheirJob == \A j \in JobIds : logs[j] > 0 => Exists(j)
C25_Categories == <<
    [exact |-> TRUE, keywords |-> {kw_Invalid_credentials, kw_Login_failed},
     message |-> "Invalid Gibney credentials. Please update your login information."],
    [exact |-> FALSE, keywords |-> {kw_timeout},
     message |-> "Connection timed out. Gibney website may be slow or unavailable."],
    [exact |-> FALSE, keywords |-> {kw_network, kw_connection},
     message |-> "Network error. Please check your internet connection."],
    [exact |-> FALSE, keywords |-> {kw_database},
     message |-> "Database error. Please try again later."],
    [exact |-> FALSE, keywords |-> {kw_browser, kw_playwright},
     message |-> "Browser automation error. Please contact support."],
    [exact |-> FALSE, keywords |-> {kw_invalidtoken, kw_decrypt},
     message |-> "Failed to decrypt Gibney credentials. Please update your login information."] >>
C25_Text(e) == IF e.text = <<>> THEN e.name ELSE e.text
C25_Matches(c, t) ==
    \E k \in c.keywords : Contains(k, IF c.exact THEN t ELSE lower(t))
C25_Message(t) ==
    IF \E i \in 1..Len(C25_Categories) : C25_Matches(C25_Categories[i], t)
    THEN C25_Categories[CHOOSE i \in 1..Len(C25_Categories) :
                           /\ C25_Matches(C25_Categories[i], t)
                           /\ \A h \in 1..(i - 1) : ~C25_Matches(C25_Categories[h], t)].message
    ELSE "Sync error: " \o Format(t)
\* C25 (checked under SpecClassify): the message of a failed job is chosen
\* from the exception text by first match in the fixed order: 'Invalid
\* credentials' or 'Login failed'; 'timeout'; 'network' or 'connection';
\* 'database'; 'browser' or 'playwright'; 'invalidtoken' or 'decrypt'; else
\* 'Sync error: <text>'.  An exception with empty text is classified by its
\* type name.
C25_MessageByFirstMatch ==
    exc.user_friendly_error # NULL
        => exc.user_friendly_error = C25_Message(C25_Text(exc))

\* C26 (checked under Spec): every SyncJob row is inserted as pending, and a
\* step changes the status of a row only from pending to running, from
\* running to completed or from running to failed.
C26_StatusFollowsStateMachine ==
    [][\A j \in JobIds :
         /\ (~Exists(j) /\ Exists(j)') => jobs'[j].status = "pending"
         /\ (Exists(j) /\ Exists(j)' /\ jobs'[j].status # jobs[j].status)
               => <<jobs[j].status, jobs'[j].status>> \in
                     {<<"pending", "running">>, <<"running", "completed">>,
                      <<"running", "failed">>}]_vars

\* C27 (checked under SpecStart): StartSync never answers "already in
\* progress" with a running job whose heartbeat is older than the stale
\* timeout; such a job is failed by the sweep of the same call.
C27_NoStaleJobAnswered ==
    [][\A o \in Owners, e \in JobIds :
         (StartCall(o, e) /\ ret'.op = "already" /\ ret'.status = "running")
            => jobs[e].last_updated_at <= TimeoutMinutes]_vars

\* C28 (checked under SpecSweep): of the callers that invoke the sweep while
\* no sweep was performed within the last interval, one performs it and the
\* others skip: a call goes on to sweep only when no process has performed
\* a sweep less than stale_check_interval ago.
C28_OneSweepPerInterval ==
    [][\A p \in Processes :
         (sweep_check(p) /\ sw'.pc[p] = "querying")
            => \A q \in Processes :
                  sw.stamp[q] = Never \/ sw.stamp[q] >= stale_check_interval]_vars

\* C29 (checked under SpecOps): no sweep changes a pending job, a pending
\* job stays pending however many sweeps run, and every StartSync of its
\* owner creates no job and answers with that pending job.
C29_PendingJobStaysAndIsAnswered ==
    [][\A j \in JobIds :
         (Exists(j) /\ jobs[j].status = "pending") =>
            /\ SweepCall(TimeoutMinutes) => jobs'[j] = jobs[j]
            /\ \A e \in JobIds :
                  StartCall(jobs[j].user_id, e) =>
                     /\ jobs'[j] = jobs[j]
                     /\ nextId' = nextId
                     /\ \A k \in JobIds : Exists(k)' => Exists(k)
                     /\ ret'.op = "already" /\ ret'.job = j]_vars

\* C30 (checked under SpecLog): a Log call neither commits nor rolls back
\* the writes of the reconciliation whose session it shares, so the bookings
\* persisted are the same whether or not a log write fails: a log call leaves
\* the bookings table and the session's pending deletes alone, and a finished
\* reconciliation leaves the owner no booking that is absent from the
\* snapshot.
C30_LogLeavesSessionAlone ==
    [][/\ (\E ok \in BOOLEAN : log_booking_processed(ok))
            => (bookings' = bookings /\ sess'.pending = sess.pending)
       /\ (scrape_finish /\ rec'.op = "reconcile")
            => \A b \in BookingIds :
                  (bookings'[b] # NoBooking /\ bookings'[b].user_id = sess.user)
                     => b \in scraped_ids(sess.rental_data)]_vars

\* C31 (checked under SpecLog): whenever the reconciliation of a harvest
\* returns without raising, no booking of the owner whose id is absent from
\* the snapshot is left; for a snapshot without rows, no booking of the owner
\* is left at all.
C31_AbsentBookingsDeleted ==
    [][(scrape_finish /\ rec'.op = "reconcile") =>
          /\ existing_bookings(sess.user)' \subseteq scraped_ids(sess.rental_data)
          /\ sess.rental_data = <<>> => existing_bookings(sess.user)' = {}
          /\ rec'.deleted = sess.deleted]_vars

\* C32 (checked under SpecBatch): a reconciliation writes its deletes,
\* creates and updates in transactions of at most BATCH_SIZE rows each, and
\* a failing batch takes nothing back of what earlier batches committed.
C32_BatchesBoundTransactions ==
    /\ [](tx.open <= BATCH_SIZE /\ tx.largest <= BATCH_SIZE)
    /\ [][tx'.committed >= tx.committed]_vars

\* C33 (checked under SpecRec): a reconciliation that returns leaves every
\* stored row of the owner that the snapshot names with its owner; when the
\* record's hash equals the row's, or the record holds what the row holds,
\* only last_seen changes; when the hash differs, name, start_time, end_time,
\* studio, location, status and price are those of the record and last_seen
\* is advanced.
C33_UpdateWritesRecordFields ==
    [][(rec'.op = "reconcile" /\ scrape_user_bookings(rec'.user, rec'.rental_data, TRUE)) =>
            \A i \in DOMAIN rec'.rental_data :
               rec'.rental_data[i].id \in existing_bookings(rec'.user) =>
                  LET r == rec'.rental_data[i]
                      o == rec'.user
                      row == bookings[r.id]
                      new == bookings'[r.id]
                      touched == [row EXCEPT !.last_seen = 0]
                  IN  /\ new.user_id = row.user_id
                      /\ new.last_seen = 0
                      /\ create_hash(row) = create_booking_hash(r) => new = touched
                      /\ Booking(r, o) = touched => new = touched
                      /\ create_hash(row) # create_booking_hash(r) =>
                            /\ new.name = r.name
                            /\ new.start_time.t = r.start_time.t
                            /\ new.end_time.t = r.end_time.t
                            /\ new.studio = r.studio
                            /\ new.location = r.location
                            /\ new.status = r.status
                            /\ new.price = Numeric(r.price)]_vars

\* A reconciliation updated a row that had been stored earlier with another
\* start time: the row now holds the record's times and a fresh last_seen,
\* beside a row of the other owner that has aged.
C33_Witness ==
    /\ rec.op = "reconcile" /\ rec.updated = 1 /\ rec.created = 0
    /\ \E b, c \in BookingIds :
          /\ b # c
          /\ rec.rental_data[1].id = b
          /\ bookings[b].user_id = rec.user
          /\ bookings[b].start_time.t = MaxTime /\ bookings[b].last_seen = 0
          /\ bookings[c] # NoBooking /\ bookings[c].last_seen = 1

\* C34 (checked under SpecRec): a reconciliation of one owner, whether it
\* returns or raises and whatever ids its snapshot holds, leaves every
\* booking of every other owner as it was and creates no booking for another
\* owner.
C34_OtherOwnersUntouched ==
    [][(\E logged \in BOOLEAN :
           scrape_user_bookings(rec'.user, rec'.rental_data, logged)) =>
         \A b \in BookingIds :
            /\ (bookings[b] # NoBooking /\ bookings[b].user_id # rec'.user)
                  => bookings'[b] = bookings[b]
            /\ (bookings'[b] # NoBooking /\ bookings'[b].user_id # rec'.user)
                  => bookings'[b] = bookings[b]]_vars

\* A reconciliation whose snapshot held the id of a booking of the other
\* owner has run and raised, and that booking is still stored.
C34_Witness ==
    /\ rec.op = "raised"
    /\ \E i \in DOMAIN rec.rental_data :
          /\ bookings[rec.rental_data[i].id] # NoBooking
          /\ bookings[rec.rental_data[i].id].user_id # rec.user

\* C35 (checked under SpecBeat): when the write of a job's final status
\* fails, the executor writes it once more in a fresh transaction, so the
\* status is recorded whenever that second write succeeds, and the executor
\* returns without raising whether it does or not; this holds for the failed
\* status and for the completed status.
C35_FinalStatusWriteRetried ==
    [][\A j \in JobIds, okAgain \in BOOLEAN :
         /\ \A e \in ScrapeErrors, rb \in BOOLEAN :
               ScrapeRaisesWith(j, e, FALSE, okAgain, rb) =>
                  /\ task'[j].pc = "done"
                  /\ (okAgain /\ Exists(j)) => jobs'[j].status = "failed"
         /\ CompleteJobWith(j, TRUE, FALSE, okAgain) =>
               /\ task'[j].pc = "done"
               /\ (okAgain /\ Exists(j)) => jobs'[j].status = "completed"]_vars

\* The kinds of login failure and the messages of the job record.
\* When the failure of a login is written to its job: a login that stayed on
\* the login page with an error element gives the invalid-credentials message;
\* one that stayed there with no error element does not give that message; one
\* that login raised as timed out gives the timeout message.
C36_InvalidCredentialsMessage ==
    "Invalid Gibney credentials. Please update your login information."
C36_TimeoutMessage ==
    "Connection timed out. Gibney website may be slow or unavailable."
C36_Recorded ==
    /\ lg.pc = "recorded"
    /\ jobs[lg.job] # NoJob
    /\ jobs[lg.job].status = "failed"
C36_InvalidCredentials == Contains(kw_login_path, lg.url) /\ lg.error_messages > 0
C36_LoginStuck == Contains(kw_login_path, lg.url) /\ lg.error_messages = 0
C36_LoginTimeout == exc.text = Failed_to_login \o Login_timed_out
C36_CredentialsPart ==
    (C36_Recorded /\ C36_InvalidCredentials)
        => jobs[lg.job].error_message = C36_InvalidCredentialsMessage
C36_StuckPart ==
    (C36_Recorded /\ C36_LoginStuck)
        => jobs[lg.job].error_message # C36_InvalidCredentialsMessage
C36_TimeoutPart ==
    (C36_Recorded /\ C36_LoginTimeout)
        => jobs[lg.job].error_message = C36_TimeoutMessage
\* C36: each kind of login failure reaches the job record under its own message.
C36_LoginFailureKindsDistinct ==
    C36_CredentialsPart /\ C36_StuckPart /\ C36_TimeoutPart

\* The rows a pass of the scroll loop adds to the snapshot.
C37_Pass == hv.pc = "loop" /\ hv'.passes = hv.passes + 1
C37_Added == Len(hv'.all_rentals) - Len(hv.all_rentals)
C37_AddingPassResets ==
    [][(C37_Pass /\ C37_Added > 0) => hv'.no_new_content_count = 0]_vars
C37_EmptyPassCounts ==
    [][(C37_Pass /\ C37_Added = 0)
          => hv'.no_new_content_count = hv.no_new_content_count + 1]_vars
C37_StopsAtK ==
    [][C37_Pass => (hv'.no_new_content_count >= MAX_NO_NEW_CONTENT_ATTEMPTS
                       => hv'.pc = "returned")]_vars
\* C37: the harvest stops for lack of new content exactly when 4 consecutive
\* passes have each added no row to the snapshot: a pass that adds a row sets
\* the count of empty passes back to 0, a pass that adds none raises it by one,
\* and the loop is left when the count reaches 4.
C37_StopsAfterKEmptyPasses ==
    [][C37_Pass =>
          /\ C37_Added > 0 => hv'.no_new_content_count = 0
          /\ C37_Added = 0 => hv'.no_new_content_count = hv.no_new_content_count + 1
          /\ hv'.no_new_content_count >= MAX_NO_NEW_CONTENT_ATTEMPTS
                => hv'.pc = "returned"]_vars

\* The row whose detail link matches neither id pattern, the ids the harvest
\* can give it, and the records of a snapshot that carry one of them.
C38_Row == [cells |-> 8, link |-> TRUE, id |-> NULL, name |-> RentalName, parses |-> TRUE]
C38_SyntheticIds == {record_id(C38_Row, i) : i \in 0..(MaxRows - 1)}
C38_Synthetic(all_rentals) ==
    {k \in 1..Len(all_rentals) : all_rentals[k].id \in C38_SyntheticIds}
C38_ShowsOnce(rows) == Cardinality({k \in 1..Len(rows) : rows[k] = C38_Row}) = 1
C38_StillHarvested ==
    [][\A rows \in Pages :
          (/\ hv.pc = "loop"
           /\ C38_Synthetic(hv.all_rentals) = {}
           /\ C38_ShowsOnce(rows)
           /\ scroll_pass(rows))
             => Cardinality(C38_Synthetic(hv'.all_rentals)) = 1]_vars
C38_SameIdWherever ==
    [][\A rows \in Pages :
          (/\ hv.pc = "loop"
           /\ C38_Synthetic(hv.all_rentals) # {}
           /\ C38_ShowsOnce(rows)
           /\ scroll_pass(rows))
             => C38_Synthetic(hv'.all_rentals) = C38_Synthetic(hv.all_rentals)]_vars
\* C38: a row whose link matches neither id pattern is harvested under a
\* synthetic id, and a later pass that shows that one row again, at whatever
\* position of the listing, finds it under the same id and adds no second
\* record for it.
C38_SyntheticIdStable ==
    [][\A rows \in Pages :
          (hv.pc = "loop" /\ C38_ShowsOnce(rows) /\ scroll_pass(rows))
             => IF C38_Synthetic(hv.all_rentals) = {}
                THEN Cardinality(C38_Synthetic(hv'.all_rentals)) = 1
                ELSE C38_Synthetic(hv'.all_rentals) = C38_Synthetic(hv.all_rentals)]_vars

\* The rows of a page that cannot be parsed, and the rows a pass adds.
C39_Unparseable(row) == row.cells < 8 \/ ~row.link \/ ~row.parses
C39_Ids(all_rentals) == {all_rentals[k].id : k \in 1..Len(all_rentals)}
C39_Added == Len(hv'.all_rentals) - Len(hv.all_rentals)
C39_Fresh(rows, k) ==
    /\ record_id(rows[k], k - 1) \notin hv.processed_ids
    /\ \A h \in 1..(k - 1) : record_id(rows[h], h - 1) # record_id(rows[k], k - 1)
C39_RestHarvested ==
    [][\A rows \in Pages :
          (hv.pc = "loop" /\ scroll_pass(rows)
             /\ \E k \in 1..Len(rows) : C39_Unparseable(rows[k]))
             => /\ hv'.pc \in {"loop", "returned"}
                /\ \A k \in 1..Len(rows) :
                      C39_Fresh(rows, k) =>
                         (record_id(rows[k], k - 1) \in C39_Ids(hv'.all_rentals)
                             <=> ~C39_Unparseable(rows[k]))]_vars
C39_SkippedNotCountedAsFound ==
    [][(hv.pc = "loop" /\ hv'.passes = hv.passes + 1)
          => new_rentals_count(hv, hv') = C39_Added]_vars
\* C39: a row that cannot be parsed is skipped and counted as skipped: the pass
\* goes on, no record is added for the row, every other row of the page not
\* met before is harvested, and the count the pass keeps of the rows it found
\* leaves the skipped row out.
C39_UnparseableRowSkippedAndCounted ==
    [][\A rows \in Pages :
          (hv.pc = "loop" /\ scroll_pass(rows))
             => /\ hv'.pc \in {"loop", "returned"}
                /\ \A k \in 1..Len(rows) :
                      C39_Fresh(rows, k) =>
                         (record_id(rows[k], k - 1) \in C39_Ids(hv'.all_rentals)
                             <=> ~C39_Unparseable(rows[k]))
                /\ new_rentals_count(hv, hv') = C39_Added]_vars

\* The loops that ran out of candidates, and the selectors a message names.
C40_AllFailed ==
    /\ loc.pc \notin {"idle", "trying"}
    /\ ~loc.found
C40_Names(msg, selector) == \E k \in DOMAIN msg : msg[k] = selector
\* C40: when every candidate selector of a list has failed, the harvester
\* raises a failure whose message names every selector it attempted; for the
\* login button, for the link to the rentals page and for the rentals table.
C40_FailureNamesEverySelector ==
    C40_AllFailed =>
        /\ loc.pc = "raised"
        /\ loc.attempted = loc.list
        /\ \A n \in DOMAIN loc.attempted : C40_Names(loc.error_msg, loc.attempted[n])

====
